---- MODULE Spec2Model ----
(***************************************************************************)
(* A model of drive-api-tool's crawl/download engine.                      *)
(*                                                                         *)
(*   SpecSched  the rate limiter of src/rate_limit.py                      *)
(*              (rate_limited_as_completed), driven by a caller that       *)
(*              issues batches back to back as src/dl.py does, over a      *)
(*              discrete clock.                                            *)
(*   SpecSchedLive  the same rate limiter on a clock that never stops,     *)
(*              with fair scheduling, for its liveness.                    *)
(*   Spec       the metadata crawl of src/dl.py (get_metadata_recursive,   *)
(*              restore_queues, fix_restore_queues) over a small remote    *)
(*              hierarchy, with process crashes and restarts.              *)
(*   SpecWide   the same crawl with the write buffers one row wider, so    *)
(*              that the row buffer can lag behind the edge buffer.        *)
(*   SpecBatch  the batch formation of the crawl (src/dl.py lines 476-486  *)
(*              and 552-559) applied to frontiers of bounded size.         *)
(*                                                                         *)
(*   SpecDl     the download pass of src/dl.py (download_and_save) over a  *)
(*              small store, run once or twice on the same output          *)
(*              directory.                                                 *)
(*   SpecFn     Item.filename (src/dl.py) with sanitize_filename           *)
(*              (src/util.py), applied to items of bounded length.         *)
(*                                                                         *)
(* The specifications share one tuple of variables; each leaves the        *)
(* variables of the others at their initial values.                        *)
(***************************************************************************)
EXTENDS Integers, Sequences, FiniteSets, TLC

(***************************************************************************)
(* Bounds of the model.                                                    *)
(***************************************************************************)
\* largest quota (and concurrency cap) tried by SpecSched
MaxQuota == 2
\* largest number of coroutines handed to one rate_limited_as_completed call
MaxCoros == 3
\* the caller of SpecSched issues this many batches back to back
MaxBatches == 2
\* last tick of the discrete clock
MaxTime == 5

\* restarts (--restore or --fix-missing-parents) of the crawl per behaviour
MaxRestarts == 1
\* failing remote operations per behaviour of the crawl
MaxErrors == 1

(***************************************************************************)
(* Program constants of the crawl, scaled down with the remote hierarchy   *)
(* (the source values are 1000, 2000, 50 and 5).                           *)
(***************************************************************************)
\* check_queue / check_queue2: a buffer of this many rows is committed
FLUSH_ROWS == 2
\* the same threshold in SpecWide: with buffers of up to two rows a row can
\* wait in metadata_queue while newer edges are committed, as with the
\* source's 1000
FLUSH_ROWS_WIDE == 3
\* restore_queues: N, the look-back over the newest hierarchy rows
N == 2
\* restore_queues: BACKUP, the least number of newest parents to redo
BACKUP == 2
\* CHUNK_SIZE = quota * 5: the factor
CHUNK_FACTOR == 2

(***************************************************************************)
(* Program constants of the rate limiter, in clock ticks.                  *)
(***************************************************************************)
\* rate_limited_as_completed(..., period=1): the window length, here 2 ticks
Period == 2
\* MIN_SLEEP = 0.020: the shortest sleep; here the shortest positive
\* duration of the discrete clock
MIN_SLEEP == 1

VARIABLES
    \* ---- rate_limited_as_completed (src/rate_limit.py) ----
    max_concurrent, \* argument max_concurrent
    quota,          \* argument quota
    coros,          \* len(coros) of the current call; coroutines are 1..coros
    semaphore,      \* semaphore._value
    done,           \* the asyncio.Queue `done`: futures in callback order
    end_times,      \* the deque end_times
    submit_pc,      \* where _submit() is: "acquire", "sleep", "finished"
    submit_i,       \* index of the coroutine _submit() is about to start
    wake_at,        \* the tick asyncio.sleep(sleep_time) returns at
    running,        \* tasks created and not yet completed
    caller_pc,      \* "call", "consume", "error", "end"
    delivered,      \* results the consumer got from _wait_to_get(), in order
    batches,        \* calls of rate_limited_as_completed made so far
    now,            \* time.monotonic(), in ticks
    \* history of the scheduler runs (not program state)
    order,          \* coroutines of the current call in completion order
    run_ends,       \* completion ticks of the current call that lie in the
                    \* window (now - Period, now]
    all_ends,       \* the same over every call so far
    \* ---- get_metadata_recursive (src/dl.py) ----
    initial_ids,      \* argument initial_ids
    follow_shortcuts, \* argument follow_shortcuts
    follow_parents,   \* argument follow_parents
    flush_rows,       \* the threshold of check_queue and check_queue2 at the
                      \* scale of this run (1000 in the source)
    mode,             \* "fresh", "restore" or "fix": how the frontier began
    pc,               \* "outer", "inner", "ids", "folder_batch", "ids_batch",
                      \* "flush", "done", "crashed"
    folders_continue, \* list of (id, next page token)
    folders_queue,
    folders_seen,
    ids_queue,
    ids_seen,
    metadata_queue,   \* rows waiting for check_queue
    hierarchy_queue,  \* rows waiting for check_queue2
    metadata,         \* table metadata: the ids that have a row
    hierarchy,        \* table hierarchy: (parent_id, child_id) in rowid order
    ops,              \* the requests of the current batch, in submission order
    started,          \* how many of them the scheduler has started
    inflight,         \* positions in ops started and not yet completed
    pbar_total,
    pbar_n,
    errors,           \* err_track.total
    restarts,
    \* history of the crawl (not program state)
    crashed_once,     \* some run of this store was killed
    failed_once,      \* some remote operation failed
    resolved,         \* ids whose attributes this run obtained as a folder
    unfinished,       \* at the last crash: known folders not fully persisted
    requeued,         \* folders put in folders_queue since the last restart
    issued,           \* the requests handed to the scheduler by this run:
                      \* <<"list", id, token>> and <<"get", id, 0>>
    twice,            \* some request was handed to the scheduler again
    restored,         \* folders_seen and ids_seen as the run began with them
    discovered,       \* the rows and the edges this run has appended to
                      \* metadata_queue and hierarchy_queue
    \* ---- download_and_save (src/dl.py) ----
    out_dirs,           \* directories under out_dir, each a path
    out_files,          \* downloaded and exported files: <<path, extension>>
    out_sidecars,       \* the ".json" files: the path they sit next to
    downloaded,         \* table downloaded: the ids that have a row
    things_to_download, \* the coroutines queued for the next flush
    dl_pc,              \* "idle", "walk", "flush", "final", "done", "aborted"
    root_i,             \* position of the root loop in `ids`
    owner_i,            \* owner folder names of the current root done so far
    stack,              \* the folders whose child loop is running, outermost
                        \* first: [id, path, k] with k children done
    id_set,             \* the set() the current root's walk carries
    pending,            \* positions in things_to_download not yet completed
    suceeeded,          \* `suceeeded` of the flush in progress
    err_errors,         \* len(err_track.errors)
    err_total,          \* err_track.total
    passes,             \* runs of download_and_save begun so far
    \* history of the download passes (not program state)
    ever_succeeded,     \* ids of which some download or export succeeded
    scheduled,          \* destinations queued by the current pass, in order
    decisions,          \* the destinations the current pass looked at: was
                        \* the file there, was the id in table downloaded,
                        \* was an operation queued
    executed,           \* positions of `scheduled` whose operation has run
    run_twice,          \* some operation of the current pass ran twice
    flush_ok,           \* ids whose operation returned without an error in
                        \* the flush in progress, or in the last one
    raised,             \* operations that raised in the current pass
    swallowed,          \* a ValueError of the scheduler was caught per item
    loops,              \* paths at which "Loop detected" was logged
    tree_before,        \* the three sets above when the pass began
    clean,              \* every earlier pass ended with no operation raising
    \* ---- Item.filename (src/dl.py), sanitize_filename (src/util.py) ----
    item,               \* the item filename() is called on
    fn_pc,              \* "call" or "returned"
    fn_result           \* what filename() returned

crawlVars == <<initial_ids, follow_shortcuts, follow_parents, flush_rows,
               mode, pc,
               folders_continue, folders_queue, folders_seen, ids_queue,
               ids_seen, metadata_queue, hierarchy_queue, metadata,
               hierarchy, ops, started, inflight, pbar_total, pbar_n,
               errors, restarts, crashed_once, failed_once, resolved,
               unfinished, requeued, issued, twice, restored,
               discovered>>

schedVars == <<max_concurrent, quota, coros, semaphore, done, end_times,
               submit_pc, submit_i, wake_at, running, caller_pc, delivered,
               batches, now, order, run_ends, all_ends>>

dlVars == <<out_dirs, out_files, out_sidecars, downloaded,
            things_to_download, dl_pc,
            root_i, owner_i, stack, id_set, pending, suceeeded, err_errors,
            err_total, passes, ever_succeeded, scheduled, decisions,
            executed, run_twice, flush_ok, raised, swallowed,
            loops, tree_before, clean>>

fnVars == <<item, fn_pc, fn_result>>

vars == <<schedVars, crawlVars, dlVars, fnVars>>

Max(a, b) == IF a >= b THEN a ELSE b
Min(a, b) == IF a <= b THEN a ELSE b
Range(s) == {s[i] : i \in DOMAIN s}

(***************************************************************************)
(* src/rate_limit.py                                                       *)
(***************************************************************************)

\* _flush_times(): drop from the left every end time older than `period`.
RECURSIVE flush_times(_, _)
flush_times(et, t) ==
    IF et # <<>> /\ (t - Head(et)) > Period
    THEN flush_times(Tail(et), t)
    ELSE et

\* mutant of over_quota: the comparison is off by one
over_quota_strict(sem, et) == (max_concurrent - sem - 1) + Len(et) > quota

\* `(max_concurrent - semaphore._value - 1) + len(end_times) >= quota`,
\* evaluated after semaphore.acquire() left `sem` in semaphore._value.
over_quota(sem, et) == (max_concurrent - sem - 1) + Len(et) >= quota

\* mutant of semaphore_release: a completion hands back nothing
semaphore_release_none(sem) == sem

\* mutant of semaphore_release: a completion hands back two units
semaphore_release_twice(sem) == sem + 2

\* semaphore.release() in _on_completion.
semaphore_release(sem) == sem + 1

\* `await semaphore.acquire()` returns only while semaphore._value > 0.
acquire_returns(sem) == sem > 0

\* mutant of done_put: the newest future overtakes the waiting ones
done_put_front(q, f) == <<f>> \o q

\* done.put_nowait(f): the queue is FIFO.
done_put(q, f) == Append(q, f)

\* download_and_save is not running.
DlIdle ==
    /\ out_dirs = {}
    /\ out_files = {}
    /\ out_sidecars = {}
    /\ downloaded = {}
    /\ things_to_download = <<>>
    /\ dl_pc = "idle"
    /\ root_i = 1
    /\ owner_i = 0
    /\ stack = <<>>
    /\ id_set = {}
    /\ pending = {}
    /\ suceeeded = <<>>
    /\ err_errors = 0
    /\ err_total = 0
    /\ passes = 0
    /\ ever_succeeded = {}
    /\ scheduled = <<>>
    /\ decisions = <<>>
    /\ executed = {}
    /\ run_twice = FALSE
    /\ flush_ok = {}
    /\ raised = 0
    /\ swallowed = FALSE
    /\ loops = {}
    /\ tree_before = <<{}, {}, {}>>
    /\ clean = TRUE

\* Item.filename is not being called.
FnIdle ==
    /\ item = <<>>
    /\ fn_pc = "returned"
    /\ fn_result = <<>>

\* The crawl is not running: its frontier and buffers are empty.
CrawlNotRunning ==
    /\ initial_ids = {}
    /\ follow_shortcuts = TRUE
    /\ follow_parents = FALSE
    /\ flush_rows = FLUSH_ROWS
    /\ mode = "fresh"
    /\ pc = "done"
    /\ folders_continue = <<>>
    /\ folders_queue = {}
    /\ folders_seen = {}
    /\ ids_queue = {}
    /\ ids_seen = {}
    /\ metadata_queue = <<>>
    /\ hierarchy_queue = <<>>
    /\ ops = <<>>
    /\ started = 0
    /\ inflight = {}
    /\ pbar_total = 0
    /\ pbar_n = 0
    /\ errors = 0
    /\ restarts = 0
    /\ crashed_once = FALSE
    /\ failed_once = FALSE
    /\ resolved = {}
    /\ unfinished = {}
    /\ requeued = {}
    /\ issued = {}
    /\ twice = FALSE
    /\ restored = [fs |-> {}, is |-> {}]
    /\ discovered = [rows |-> {}, edges |-> {}]

\* The crawl is not running and the store is empty (SpecSched).
CrawlIdle ==
    /\ CrawlNotRunning
    /\ metadata = {}
    /\ hierarchy = <<>>

\* The state before the first call, with the clock (time.monotonic(), whose
\* origin is arbitrary) standing at tick t.
SchedInitAt(t) ==
    /\ max_concurrent \in 1..MaxQuota
    /\ quota \in 1..MaxQuota
    /\ coros = 0
    /\ semaphore = 0
    /\ done = <<>>
    /\ end_times = <<>>
    /\ submit_pc = "finished"
    /\ submit_i = 1
    /\ wake_at = 0
    /\ running = {}
    /\ caller_pc = "call"
    /\ delivered = <<>>
    /\ batches = 0
    /\ now = t
    /\ order = <<>>
    /\ run_ends = <<>>
    /\ all_ends = <<>>
    /\ CrawlIdle
    /\ DlIdle
    /\ FnIdle

SchedInit == SchedInitAt(0)

\* The caller runs `for coro in rate_limited_as_completed(coros, ...)`:
\* max_concurrent > quota raises ValueError; otherwise the call makes its
\* own semaphore, queue and deque and creates the _submit() task.
rate_limited_as_completed(n) ==
    /\ caller_pc = "call"
    /\ max_concurrent <= quota
    /\ coros' = n
    /\ semaphore' = max_concurrent
    /\ done' = <<>>
    /\ end_times' = <<>>
    /\ submit_pc' = "acquire"
    /\ submit_i' = 1
    /\ running' = {}
    /\ caller_pc' = "consume"
    /\ delivered' = <<>>
    /\ batches' = batches + 1
    /\ order' = <<>>
    /\ run_ends' = <<>>
    /\ UNCHANGED <<max_concurrent, quota, wake_at, now, all_ends>>
    /\ UNCHANGED <<crawlVars, dlVars, fnVars>>

raise_ValueError ==
    /\ caller_pc = "call"
    /\ max_concurrent > quota
    /\ caller_pc' = "error"
    /\ UNCHANGED <<max_concurrent, quota, coros, semaphore, done, end_times,
                   submit_pc, submit_i, wake_at, running, delivered, batches,
                   now, order, run_ends, all_ends>>
    /\ UNCHANGED <<crawlVars, dlVars, fnVars>>

\* asyncio.create_task(coro); task.add_done_callback(_on_completion), and
\* the for loop of _submit() moves on to the next coroutine.
create_task ==
    /\ running' = running \cup {submit_i}
    /\ submit_i' = submit_i + 1
    /\ submit_pc' = IF submit_i = coros THEN "finished" ELSE "acquire"

\* _submit(): semaphore.acquire() returns, _flush_times(), the quota is not
\* used up: the task is created at once.
submit_start ==
    /\ caller_pc = "consume"
    /\ submit_pc = "acquire"
    /\ acquire_returns(semaphore)
    /\ LET sem == semaphore - 1
           et == flush_times(end_times, now)
       IN /\ ~over_quota(sem, et)
          /\ semaphore' = sem
          /\ end_times' = et
    /\ create_task
    /\ UNCHANGED <<max_concurrent, quota, coros, done, wake_at, caller_pc,
                   delivered, batches, now, order, run_ends, all_ends>>
    /\ UNCHANGED <<crawlVars, dlVars, fnVars>>

\* mutant of submit_sleep: the oldest end time is dropped before the sleep
submit_sleep_evict_first ==
    /\ caller_pc = "consume"
    /\ submit_pc = "acquire"
    /\ acquire_returns(semaphore)
    /\ LET sem == semaphore - 1
           et == flush_times(end_times, now)
       IN /\ over_quota(sem, et)
          /\ semaphore' = sem
          /\ end_times' = Tail(et)
          /\ wake_at' = now + Max(Period - (now - et[1]), MIN_SLEEP)
    /\ submit_pc' = "sleep"
    /\ UNCHANGED <<max_concurrent, quota, coros, done, submit_i, running,
                   caller_pc, delivered, batches, now, order, run_ends,
                   all_ends>>
    /\ UNCHANGED <<crawlVars, dlVars, fnVars>>

\* _submit(): semaphore.acquire() returns, _flush_times(), the quota is used
\* up: sleep until the oldest end time is `period` old (MIN_SLEEP at least).
submit_sleep ==
    /\ caller_pc = "consume"
    /\ submit_pc = "acquire"
    /\ acquire_returns(semaphore)
    /\ LET sem == semaphore - 1
           et == flush_times(end_times, now)
       IN /\ over_quota(sem, et)
          /\ semaphore' = sem
          /\ end_times' = et
          /\ wake_at' = now + Max(Period - (now - et[1]), MIN_SLEEP)
    /\ submit_pc' = "sleep"
    /\ UNCHANGED <<max_concurrent, quota, coros, done, submit_i, running,
                   caller_pc, delivered, batches, now, order, run_ends,
                   all_ends>>
    /\ UNCHANGED <<crawlVars, dlVars, fnVars>>

\* mutant of submit_wake: the oldest end time is not dropped after the sleep
submit_wake_no_evict ==
    /\ caller_pc = "consume"
    /\ submit_pc = "sleep"
    /\ now >= wake_at
    /\ wake_at' = 0
    /\ create_task
    /\ UNCHANGED <<max_concurrent, quota, coros, semaphore, done, end_times,
                   caller_pc, delivered, batches, now, order, run_ends,
                   all_ends>>
    /\ UNCHANGED <<crawlVars, dlVars, fnVars>>

\* _submit(): asyncio.sleep() returns (never before its deadline, possibly
\* later), end_times.popleft(), then the task is created.
submit_wake ==
    /\ caller_pc = "consume"
    /\ submit_pc = "sleep"
    /\ now >= wake_at
    /\ end_times' = Tail(end_times)
    /\ wake_at' = 0
    /\ create_task
    /\ UNCHANGED <<max_concurrent, quota, coros, semaphore, done,
                   caller_pc, delivered, batches, now, order, run_ends,
                   all_ends>>
    /\ UNCHANGED <<crawlVars, dlVars, fnVars>>

\* A running task completes and its done callback _on_completion(f) runs.
on_completion(f) ==
    /\ f \in running
    /\ running' = running \ {f}
    /\ end_times' = Append(end_times, now)
    /\ done' = done_put(done, f)
    /\ semaphore' = semaphore_release(semaphore)
    /\ order' = Append(order, f)
    /\ run_ends' = Append(run_ends, now)
    /\ all_ends' = Append(all_ends, now)
    /\ UNCHANGED <<max_concurrent, quota, coros, submit_pc, submit_i,
                   wake_at, caller_pc, delivered, batches, now>>
    /\ UNCHANGED <<crawlVars, dlVars, fnVars>>

\* The consumer awaits the next yielded _wait_to_get(): f = await done.get().
\* After len(coros) of them the generator is exhausted and the caller goes
\* on to its next batch (src/dl.py: the loops around lines 504 and 561).
wait_to_get ==
    /\ caller_pc = "consume"
    /\ Len(delivered) < coros
    /\ done # <<>>
    /\ delivered' = Append(delivered, Head(done))
    /\ done' = Tail(done)
    /\ caller_pc' = IF Len(delivered) + 1 < coros THEN "consume"
                    ELSE IF batches < MaxBatches THEN "call" ELSE "end"
    /\ UNCHANGED <<max_concurrent, quota, coros, semaphore, end_times,
                   submit_pc, submit_i, wake_at, running, batches, now,
                   order, run_ends, all_ends>>
    /\ UNCHANGED <<crawlVars, dlVars, fnVars>>

\* The completion ticks of `ends` inside the window of length Period that
\* ends at tick t.
in_window(ends, t) == SelectSeq(ends, LAMBDA e : t - Period < e /\ e <= t)

\* The clock advances.
Tick ==
    /\ now < MaxTime
    /\ now' = now + 1
    /\ run_ends' = in_window(run_ends, now + 1)
    /\ all_ends' = in_window(all_ends, now + 1)
    /\ UNCHANGED <<max_concurrent, quota, coros, semaphore, done, end_times,
                   submit_pc, submit_i, wake_at, running, caller_pc,
                   delivered, batches, order>>
    /\ UNCHANGED <<crawlVars, dlVars, fnVars>>

SchedNext ==
    \/ \E n \in 1..MaxCoros : rate_limited_as_completed(n)
    \/ raise_ValueError
    \/ submit_start
    \/ submit_sleep
    \/ submit_wake
    \/ \E f \in 1..MaxCoros : on_completion(f)
    \/ wait_to_get
    \/ Tick

SpecSched == SchedInit /\ [][SchedNext]_vars

(***************************************************************************)
(* The same scheduler on a clock that never stops, for the liveness        *)
(* claims. time.monotonic() has no fixed origin and is only ever compared  *)
(* with end times and with the wake-up time, so the clock is held at       *)
(* MaxTime and a tick moves every stored time one tick into the past       *)
(* instead. An end time more than Period old is dropped by the next        *)
(* _flush_times() however old it is, so such times are kept at Period + 1  *)
(* ticks of age.                                                           *)
(***************************************************************************)
oldest_kept == MaxTime - Period - 1

age(times) == [k \in DOMAIN times |-> Max(times[k] - 1, oldest_kept)]

TickShift ==
    /\ now = MaxTime
    /\ end_times' = age(end_times)
    /\ wake_at' = Max(wake_at - 1, 0)
    /\ run_ends' = age(in_window(run_ends, now + 1))
    /\ all_ends' = age(in_window(all_ends, now + 1))
    /\ UNCHANGED <<max_concurrent, quota, coros, semaphore, done,
                   submit_pc, submit_i, running, caller_pc,
                   delivered, batches, order, now>>
    /\ UNCHANGED <<crawlVars, dlVars, fnVars>>

SchedLiveInit == SchedInitAt(MaxTime)

SchedLiveNext ==
    \/ \E n \in 1..MaxCoros : rate_limited_as_completed(n)
    \/ raise_ValueError
    \/ submit_start
    \/ submit_sleep
    \/ submit_wake
    \/ \E f \in 1..MaxCoros : on_completion(f)
    \/ wait_to_get
    \/ TickShift

\* asyncio runs every task that is ready (the submitter, the consumer and
\* the done callbacks), every started operation completes, and time passes.
SchedFairness ==
    /\ WF_vars(submit_start)
    /\ WF_vars(submit_sleep)
    /\ WF_vars(submit_wake)
    /\ \A f \in 1..MaxCoros : WF_vars(on_completion(f))
    /\ WF_vars(wait_to_get)
    /\ WF_vars(TickShift)

SpecSchedLive == SchedLiveInit /\ [][SchedLiveNext]_vars /\ SchedFairness

(***************************************************************************)
(* Claims about the rate limiter, checked under SpecSched.                 *)
(***************************************************************************)

\* C4: with 1 <= max_concurrent <= quota, the number of operations started
\* and not yet completed never exceeds max_concurrent.
C4_InFlightAtMostCap ==
    (1 <= max_concurrent /\ max_concurrent <= quota)
        => Cardinality(running) <= max_concurrent

\* C4 witness: the cap is reached with two operations in flight while a
\* third coroutine waits for the semaphore.
C4_Witness ==
    /\ max_concurrent = 2
    /\ Cardinality(running) = 2
    /\ semaphore = 0
    /\ submit_pc = "acquire"
    /\ submit_i <= coros

C6_QuotaAcrossBatches == Len(all_ends) <= quota

\* C7: the consumer gets at most len(coros) results, the k-th one is the
\* k-th operation to complete, and once the generator is exhausted every
\* operation was delivered exactly once.
C7_CompletionOrderOnce ==
    /\ Len(delivered) <= coros
    /\ \A k \in DOMAIN delivered : k <= Len(order) /\ delivered[k] = order[k]
    /\ (batches > 0 /\ caller_pc \in {"call", "end"}) =>
          /\ Len(delivered) = coros
          /\ \A f \in 1..coros :
                Cardinality({k \in DOMAIN delivered : delivered[k] = f}) = 1

\* C7 witness: a run of three operations is exhausted and the results came
\* in an order that is not the submission order.
C7_Witness ==
    /\ caller_pc \in {"call", "end"}
    /\ coros = 3
    /\ Len(delivered) = 3
    /\ delivered # <<1, 2, 3>>

\* C37: the operations in flight and the end times held in end_times are
\* together never more than quota; a completion takes one operation out of
\* flight and appends one end time; an operation is started only when,
\* after the flush, the two are together below quota, or in the step that
\* drops the oldest end time after the sleep.
C37_InFlightPlusWindowAtMostQuota ==
    /\ [](Cardinality(running) + Len(end_times) <= quota)
    /\ [][Cardinality(running') < Cardinality(running) =>
             /\ Cardinality(running') = Cardinality(running) - 1
             /\ Len(end_times') = Len(end_times) + 1
             /\ SubSeq(end_times', 1, Len(end_times)) = end_times]_vars
    /\ [][Cardinality(running') > Cardinality(running) =>
             /\ Cardinality(running') = Cardinality(running) + 1
             /\ \/ Cardinality(running) + Len(end_times') < quota
                \/ /\ submit_pc = "sleep"
                   /\ end_times # <<>>
                   /\ end_times' = Tail(end_times)]_vars

\* C37 witness: more operations than quota have been started in the run,
\* one is in flight, end_times is not empty, and the two together are
\* quota.
C37_Witness ==
    /\ submit_i - 1 > quota
    /\ running # {}
    /\ end_times # <<>>
    /\ Cardinality(running) + Len(end_times) = quota

\* C38: the submitter starts the operations in submission order; every
\* operation of a run is eventually started; the submitter, once it waits
\* for the semaphore or sleeps on the quota, eventually gets on; and the
\* consumer of a run eventually has all len(coros) results.
C38_SchedulerLiveness ==
    /\ [][running' \ running \subseteq {submit_i}]_vars
    /\ \A f \in 1..MaxCoros :
          (caller_pc = "consume" /\ f <= coros /\ submit_i <= f)
              ~> (submit_i > f)
    /\ (submit_pc \in {"acquire", "sleep"}) ~> (submit_pc = "finished")
    /\ (caller_pc = "consume") ~>
          (caller_pc \in {"call", "end"} /\ Len(delivered) = coros)

\* C38 witness: a run of three operations with quota 1 has been consumed
\* to its end; the submitter had to wait out the quota for the second and
\* for the third operation.
C38_Witness ==
    /\ caller_pc \in {"call", "end"}
    /\ quota = 1
    /\ coros = 3
    /\ Len(delivered) = 3
    /\ submit_pc = "finished"

\* C39: whenever the submitter decides to sleep (operations in flight plus
\* end times in the window reach the quota) the window holds an end time,
\* so end_times[0] can be read; the window stays non-empty for the whole
\* sleep, and on waking end_times.popleft() removes the oldest of a
\* non-empty window.
C39_WindowNonEmptyAcrossSleep ==
    /\ [](submit_pc = "sleep" => end_times # <<>>)
    /\ [][submit_pc = "acquire" /\ submit_pc' = "sleep" =>
             /\ Cardinality(running) + Len(end_times') >= quota
             /\ Len(end_times') >= 1]_vars
    /\ [][submit_pc = "sleep" /\ submit_pc' # "sleep" =>
             /\ Len(end_times) >= 1
             /\ Len(end_times') = Len(end_times) - 1]_vars

\* An operation completed while the submitter slept, and the sleep is over.
C39_Witness ==
    /\ submit_pc = "sleep"
    /\ now >= wake_at
    /\ max_concurrent = 2
    /\ submit_i = 3
    /\ running = {}
    /\ Len(end_times) = 2


(***************************************************************************)
(* The remote hierarchy the crawl runs against (the Drive API's answers).  *)
(*                                                                         *)
(*   A  folder, listed in two pages: [B, C] then [D]                       *)
(*   B  folder [X, Z]      C  folder [Y]                                   *)
(*   D  shortcut to E      X  shortcut to A (an ancestor)                  *)
(*   E  file whose `parents` field names P, a folder no listing returns    *)
(*   P  folder [E]         Y, Z  files                                     *)
(***************************************************************************)
Ids == {"A", "B", "C", "D", "E", "P", "X", "Y", "Z"}

\* res["mimeType"]
mimeType(id) ==
    CASE id \in {"A", "B", "C", "P"} -> "folder"
      [] id \in {"D", "X"} -> "shortcut"
      [] OTHER -> "file"

\* res["shortcutDetails"]["targetId"]
targetId(id) == IF id = "D" THEN "E" ELSE "A"

\* res["parents"]
parents(id) ==
    CASE id \in {"B", "C", "D"} -> <<"A">>
      [] id \in {"X", "Z"} -> <<"B">>
      [] id = "Y" -> <<"C">>
      [] id = "E" -> <<"P">>
      [] OTHER -> <<>>

\* drive.files.list(q="'id' in parents"): the pages, each one res["files"];
\* page k carries a nextPageToken iff a page k + 1 exists.
pages(id) ==
    CASE id = "A" -> << <<"B", "C">>, <<"D">> >>
      [] id = "B" -> << <<"X", "Z">> >>
      [] id = "C" -> << <<"Y">> >>
      [] id = "P" -> << <<"E">> >>
      [] OTHER -> << <<>> >>

\* every child some page of the listing of id returns
listed_children(id) == UNION {Range(pages(id)[k]) : k \in DOMAIN pages(id)}

\* All orders in which the elements of a set can be popped.
RECURSIVE pop_orders(_)
pop_orders(S) ==
    IF S = {} THEN {<<>>}
    ELSE UNION {{<<x>> \o t : t \in pop_orders(S \ {x})} : x \in S}

(***************************************************************************)
(* src/dl.py: the store                                                    *)
(***************************************************************************)

\* mutant of insert_or_ignore: a pair already in the table is inserted again
RECURSIVE insert_always(_, _)
insert_always(table, rows) ==
    IF rows = <<>> THEN table
    ELSE insert_always(Append(table, Head(rows)), Tail(rows))

\* "INSERT OR IGNORE INTO hierarchy": rows get increasing rowids, a pair
\* already in the table is skipped (UNIQUE (parent_id, child_id)).
RECURSIVE insert_or_ignore(_, _)
insert_or_ignore(table, rows) ==
    IF rows = <<>> THEN table
    ELSE insert_or_ignore(
             IF Head(rows) \in Range(table) THEN table
             ELSE Append(table, Head(rows)),
             Tail(rows))

\* "INSERT OR REPLACE INTO metadata": one row per id.
insert_or_replace(table, rows) == table \cup Range(rows)

\* mutant of check_queue: the buffer is never committed by the threshold
check_queue_never(st) == st

\* check_queue(metadata_conn, metadata_c, metadata_queue)
check_queue(st) ==
    IF Len(st.mq) >= flush_rows
    THEN [st EXCEPT !.mt = insert_or_replace(st.mt, st.mq), !.mq = <<>>]
    ELSE st

\* check_queue2(metadata_conn, metadata_c, hierarchy_queue)
check_queue2(st) ==
    IF Len(st.hq) >= flush_rows
    THEN [st EXCEPT !.ht = insert_or_ignore(st.ht, st.hq), !.hq = <<>>]
    ELSE st

(***************************************************************************)
(* src/dl.py: the frontier.  `st` is the state a result handler works on:  *)
(* fc, fq, fs, iq, is (the frontier), mq, hq (the buffers), mt, ht (the    *)
(* tables), total (pbar_total).                                            *)
(***************************************************************************)

\* mutant of folder_is_new: folders_seen is not consulted
folder_not_queued(st, id) == id \notin st.fq

\* `id not in folders_seen and id not in folders_queue`
folder_is_new(st, id) == id \notin st.fs /\ id \notin st.fq

\* mutant of target_is_new: ids_seen is not consulted
target_not_queued(st, id) == id \notin st.iq

\* `target_id not in ids_seen and target_id not in ids_queue`
target_is_new(st, id) == id \notin st.is /\ id \notin st.iq

\* the loop `for parent in res["parents"]` of queue_parent_folder_shortcut
RECURSIVE queue_parents(_, _)
queue_parents(st, ps) ==
    IF ps = <<>> THEN st
    ELSE queue_parents(
             IF folder_is_new(st, Head(ps))
             THEN [st EXCEPT !.fq = @ \cup {Head(ps)}, !.total = @ + 1]
             ELSE st,
             Tail(ps))

\* queue_parent_folder_shortcut(res), with `pbar_total += queued` applied
queue_parent_folder_shortcut(st, id) ==
    LET s1 == IF follow_parents THEN queue_parents(st, parents(id)) ELSE st
    IN IF mimeType(id) = "folder" /\ folder_is_new(s1, id)
       THEN [s1 EXCEPT !.fq = @ \cup {id}, !.total = @ + 1]
       ELSE IF follow_shortcuts /\ mimeType(id) = "shortcut"
                 /\ target_is_new(s1, targetId(id))
            THEN [s1 EXCEPT !.iq = @ \cup {targetId(id)}, !.total = @ + 1]
            ELSE s1

\* mutant of list_child: the total is not reduced when the child was queued
list_child_no_decrement(st, id, child_id) ==
    LET s1 == [st EXCEPT !.is = @ \cup {child_id},
                         !.iq = @ \ {child_id},
                         !.hq = Append(@, <<id, child_id>>),
                         !.mq = Append(@, child_id)]
    IN queue_parent_folder_shortcut(check_queue2(check_queue(s1)), child_id)

\* the body of `for child in res["files"]` for one child of folder id
list_child(st, id, child_id) ==
    LET s1 == [st EXCEPT !.is = @ \cup {child_id},
                         !.iq = @ \ {child_id},
                         !.total = IF child_id \in st.iq THEN @ - 1 ELSE @,
                         !.hq = Append(@, <<id, child_id>>),
                         !.mq = Append(@, child_id)]
    IN queue_parent_folder_shortcut(check_queue2(check_queue(s1)), child_id)

RECURSIVE list_children(_, _, _)
list_children(st, id, files) ==
    IF files = <<>> THEN st
    ELSE list_children(list_child(st, id, Head(files)), id, Tail(files))

\* one result of the folder batch: op = (id, token), token 0 for None and
\* k for the token that asks for page k + 1
list_result(st, op) ==
    LET page == op[2] + 1
        s1 == IF page < Len(pages(op[1]))
              THEN [st EXCEPT !.fc = Append(@, <<op[1], page>>),
                              !.total = @ + 1]
              ELSE st
    IN list_children(s1, op[1], pages(op[1])[page])

\* one result of the generic-id batch
get_result(st, id) ==
    queue_parent_folder_shortcut(
        check_queue([st EXCEPT !.mq = Append(@, id)]), id)

\* mutant of folder_work_left: folders_queue is not consulted
folder_work_left_continue_only(fc, fq) == fc # <<>>

\* `while folders_continue or folders_queue`
folder_work_left(fc, fq) == fc # <<>> \/ fq # {}

\* CHUNK_SIZE = quota * 5
CHUNK_SIZE == quota * CHUNK_FACTOR


(***************************************************************************)
(* src/dl.py: restore_queues and fix_restore_queues                        *)
(***************************************************************************)
folder_rows(mt) == {id \in mt : mimeType(id) = "folder"}

\* SELECT DISTINCT(parent_id) FROM hierarchy
parent_ids(ht) == {ht[i][1] : i \in DOMAIN ht}

\* mutant of child_ids: the child ids are not read
child_ids_none(ht) == {}

\* SELECT DISTINCT(child_id) FROM hierarchy
child_ids(ht) == {ht[i][2] : i \in DOMAIN ht}

\* SELECT DISTINCT parent_id FROM
\*   (SELECT parent_id FROM hierarchy ORDER BY rowid DESC LIMIT n)
last_n_parents(ht, n) ==
    {ht[i][1] : i \in {j \in DOMAIN ht : j > Len(ht) - n}}

\* SELECT DISTINCT parent_id FROM hierarchy ORDER BY rowid DESC LIMIT k:
\* the table is walked from its newest row and the first k distinct
\* parents are kept.
RECURSIVE newest_parents(_, _, _)
newest_parents(ht, k, acc) ==
    IF ht = <<>> \/ Cardinality(acc) >= k THEN acc
    ELSE newest_parents(SubSeq(ht, 1, Len(ht) - 1), k,
                        acc \cup {ht[Len(ht)][1]})

\* mutant of restore_queues: folders without children are not redone
restore_queues_keep_childless(original_ids, mt, ht) ==
    LET folder_ids == folder_rows(mt)
        non_folder_ids == mt \ folder_ids
        have_children == parent_ids(ht)
        last_n == last_n_parents(ht, N)
        last_n_parent_id ==
            IF Cardinality(last_n) < BACKUP
            THEN last_n \cup newest_parents(ht, BACKUP, {})
            ELSE last_n
        export_folders_queue == (have_children \ folder_ids)
                                   \cup last_n_parent_id
        export_folders_seen == folder_ids \ export_folders_queue
    IN [fq |-> export_folders_queue, fs |-> export_folders_seen,
        iq |-> ((original_ids \cup child_ids(ht))
                   \ (export_folders_queue \cup export_folders_seen))
               \ non_folder_ids,
        is |-> non_folder_ids]

\* restore_queues(original_ids, db_name): the four sets it returns
restore_queues(original_ids, mt, ht) ==
    LET folder_ids == folder_rows(mt)
        non_folder_ids == mt \ folder_ids
        have_children == parent_ids(ht)
        actual_children_hierarchy == child_ids(ht)
        last_n == last_n_parents(ht, N)
        last_n_parent_id ==
            IF Cardinality(last_n) < BACKUP
            THEN last_n \cup newest_parents(ht, BACKUP, {})
            ELSE last_n
        redo_folder == ((folder_ids \ have_children)
                           \cup (have_children \ folder_ids))
                       \cup last_n_parent_id
        export_folders_queue == redo_folder
        export_folders_seen == folder_ids \ export_folders_queue
        export_ids_seen == non_folder_ids
        original_and_children_non_folder ==
            (original_ids \cup actual_children_hierarchy)
                \ (export_folders_queue \cup export_folders_seen)
        export_ids_queue ==
            (original_and_children_non_folder \cup non_folder_ids)
                \ export_ids_seen
    IN [fq |-> export_folders_queue, fs |-> export_folders_seen,
        iq |-> export_ids_queue, is |-> export_ids_seen]

\* mutant of fix_restore_queues: the missing parents are queued as folders
fix_restore_queues_expand(mt, ht) ==
    LET folder_ids == folder_rows(mt)
        missing_parents == parent_ids(ht) \ mt
    IN [fq |-> missing_parents, fs |-> folder_ids,
        iq |-> {}, is |-> mt]

\* fix_restore_queues(db_name): the four sets it returns
fix_restore_queues(mt, ht) ==
    LET folder_ids == folder_rows(mt)
        non_folder_ids == mt \ folder_ids
        missing_parents == parent_ids(ht) \ mt
    IN [fq |-> {}, fs |-> folder_ids \cup missing_parents,
        iq |-> missing_parents, is |-> non_folder_ids \cup folder_ids]

(***************************************************************************)
(* src/dl.py: get_metadata_recursive                                       *)
(***************************************************************************)

\* The rate limiter is not running (Spec): the crawl only uses its cap.
SchedIdle ==
    /\ coros = 0
    /\ semaphore = 0
    /\ done = <<>>
    /\ end_times = <<>>
    /\ submit_pc = "finished"
    /\ submit_i = 1
    /\ wake_at = 0
    /\ running = {}
    /\ caller_pc = "end"
    /\ delivered = <<>>
    /\ batches = 0
    /\ now = 0
    /\ order = <<>>
    /\ run_ends = <<>>
    /\ all_ends = <<>>

\* the quotas and the seed sets the crawl is run with
CrawlQuotas == 1..2
SeedSets == {{"A"}, {"A", "E"}}

\* A fresh run: lines 383-386 and 416-421.
FreshRun ==
    /\ SchedIdle
    /\ DlIdle
    /\ FnIdle
    /\ quota \in CrawlQuotas
    /\ max_concurrent \in 1..quota
    /\ initial_ids \in SeedSets
    /\ follow_shortcuts \in BOOLEAN
    /\ follow_parents \in BOOLEAN
    /\ mode = "fresh"
    /\ pc = "outer"
    /\ folders_continue = <<>>
    /\ folders_queue = {}
    /\ folders_seen = {}
    /\ ids_queue = initial_ids
    /\ ids_seen = {}
    /\ metadata_queue = <<>>
    /\ hierarchy_queue = <<>>
    /\ metadata = {}
    /\ hierarchy = <<>>
    /\ ops = <<>>
    /\ started = 0
    /\ inflight = {}
    /\ pbar_total = Cardinality(initial_ids)
    /\ pbar_n = 0
    /\ errors = 0
    /\ restarts = 0
    /\ crashed_once = FALSE
    /\ failed_once = FALSE
    /\ resolved = {}
    /\ unfinished = {}
    /\ requeued = {}
    /\ issued = {}
    /\ twice = FALSE
    /\ restored = [fs |-> {}, is |-> {}]
    /\ discovered = [rows |-> {}, edges |-> {}]

Init == FreshRun /\ flush_rows = FLUSH_ROWS

\* the same with the wider buffers, on the seeds A and E
InitWide ==
    /\ FreshRun
    /\ flush_rows = FLUSH_ROWS_WIDE
    /\ initial_ids = {"A", "E"}

\* the state a result handler works on
St == [fc |-> folders_continue, fq |-> folders_queue, fs |-> folders_seen,
       iq |-> ids_queue, is |-> ids_seen, mq |-> metadata_queue,
       hq |-> hierarchy_queue, mt |-> metadata, ht |-> hierarchy,
       total |-> pbar_total]

\* ... and what it leaves behind
Commit(st) ==
    /\ folders_continue' = st.fc
    /\ folders_queue' = st.fq
    /\ folders_seen' = st.fs
    /\ ids_queue' = st.iq
    /\ ids_seen' = st.is
    /\ metadata_queue' = st.mq
    /\ hierarchy_queue' = st.hq
    /\ metadata' = st.mt
    /\ hierarchy' = st.ht
    /\ pbar_total' = st.total
    /\ requeued' = requeued \cup st.fq

config == <<max_concurrent, quota, initial_ids, follow_shortcuts,
            follow_parents, flush_rows>>
frontier == <<folders_continue, folders_queue, folders_seen, ids_queue,
              ids_seen>>
store == <<metadata_queue, hierarchy_queue, metadata, hierarchy>>
history == <<crashed_once, failed_once, resolved, unfinished, requeued>>
requests == <<issued, twice, restored>>

\* lines 540-543 and 566-568: a handler has appended these rows and edges
append_rows(rows, edges) ==
    discovered' = [rows |-> discovered.rows \cup rows,
                   edges |-> discovered.edges \cup edges]

\* The coroutines of a new batch are handed to rate_limited_as_completed:
\* `kind` is "list" (drive.files.list, lines 487-502) or "get"
\* (drive.files.get, lines 557-559).
hand_over(kind, batch) ==
    LET reqs == [k \in DOMAIN batch |-> <<kind, batch[k][1], batch[k][2]>>]
    IN /\ issued' = issued \cup Range(reqs)
       /\ twice' = (\/ twice
                    \/ Range(reqs) \cap issued # {}
                    \/ Cardinality(Range(reqs)) < Len(reqs))
       /\ UNCHANGED restored

\* mutant of frontier_left: ids_queue is not consulted
frontier_left_folders_only(fc, fq, iq) == fc # <<>> \/ fq # {}

\* line 474: `while folders_continue or folders_queue or ids_queue`
frontier_left(fc, fq, iq) == fc # <<>> \/ fq # {} \/ iq # {}

outer_loop ==
    /\ pc = "outer"
    /\ pc' = IF frontier_left(folders_continue, folders_queue, ids_queue)
             THEN "inner" ELSE "flush"
    /\ UNCHANGED <<schedVars, dlVars, fnVars, initial_ids, follow_shortcuts, follow_parents,
                   flush_rows,
                   mode, frontier, store, ops, started, inflight,
                   pbar_total, pbar_n, errors, restarts, history, requests, discovered>>

\* line 476: the inner while loop ends when no folder work is left
inner_loop_exit ==
    /\ pc = "inner"
    /\ ~folder_work_left(folders_continue, folders_queue)
    /\ pc' = "ids"
    /\ UNCHANGED <<schedVars, dlVars, fnVars, initial_ids, follow_shortcuts, follow_parents,
                   flush_rows,
                   mode, frontier, store, ops, started, inflight,
                   pbar_total, pbar_n, errors, restarts, history, requests, discovered>>

\* mutant of folder_batch: the popped folders go before the continuations
folder_batch_fresh_first(popped) ==
    /\ pc = "inner"
    /\ folder_work_left(folders_continue, folders_queue)
    /\ LET ids == SubSeq(folders_continue, 1,
                         Min(CHUNK_SIZE, Len(folders_continue)))
           fresh == [k \in DOMAIN popped |-> <<popped[k], 0>>]
       IN /\ Len(popped) = Min(CHUNK_SIZE - Len(ids),
                               Cardinality(folders_queue))
          /\ folders_continue' =
                 SubSeq(folders_continue, Len(ids) + 1, Len(folders_continue))
          /\ folders_queue' = folders_queue \ Range(popped)
          /\ folders_seen' = folders_seen \cup Range(popped)
          /\ ops' = fresh \o ids
          /\ hand_over("list", fresh \o ids)
    /\ started' = 0
    /\ inflight' = {}
    /\ pc' = "folder_batch"
    /\ UNCHANGED <<schedVars, dlVars, fnVars, initial_ids, follow_shortcuts,
                   follow_parents, flush_rows, mode, ids_queue, ids_seen,
                   store, pbar_total, pbar_n, errors, restarts, history,
                   discovered>>

\* lines 478-504: continuations first, then folders popped from
\* folders_queue (set.pop: any element) fill the chunk; the coroutines go
\* to rate_limited_as_completed.
folder_batch(popped) ==
    /\ pc = "inner"
    /\ folder_work_left(folders_continue, folders_queue)
    /\ LET ids == SubSeq(folders_continue, 1,
                         Min(CHUNK_SIZE, Len(folders_continue)))
       IN /\ Len(popped) = Min(CHUNK_SIZE - Len(ids),
                               Cardinality(folders_queue))
          /\ folders_continue' =
                 SubSeq(folders_continue, Len(ids) + 1, Len(folders_continue))
          /\ folders_queue' = folders_queue \ Range(popped)
          /\ folders_seen' = folders_seen \cup Range(popped)
          /\ ops' = ids \o [k \in DOMAIN popped |-> <<popped[k], 0>>]
          /\ hand_over("list",
                       ids \o [k \in DOMAIN popped |-> <<popped[k], 0>>])
    /\ started' = 0
    /\ inflight' = {}
    /\ pc' = "folder_batch"
    /\ UNCHANGED <<schedVars, dlVars, fnVars, initial_ids, follow_shortcuts, follow_parents,
                   flush_rows,
                   mode, ids_queue, ids_seen, store, pbar_total, pbar_n,
                   errors, restarts, history, discovered>>

\* line 552: `if ids_queue` is false
ids_skip ==
    /\ pc = "ids"
    /\ ids_queue = {}
    /\ pc' = "outer"
    /\ UNCHANGED <<schedVars, dlVars, fnVars, initial_ids, follow_shortcuts, follow_parents,
                   flush_rows,
                   mode, frontier, store, ops, started, inflight,
                   pbar_total, pbar_n, errors, restarts, history, requests, discovered>>

\* lines 552-561: one chunk of generic ids
ids_batch(popped) ==
    /\ pc = "ids"
    /\ ids_queue # {}
    /\ Len(popped) = Min(Cardinality(ids_queue), CHUNK_SIZE)
    /\ ids_queue' = ids_queue \ Range(popped)
    /\ ids_seen' = ids_seen \cup Range(popped)
    /\ ops' = [k \in DOMAIN popped |-> <<popped[k], 0>>]
    /\ hand_over("get", [k \in DOMAIN popped |-> <<popped[k], 0>>])
    /\ started' = 0
    /\ inflight' = {}
    /\ pc' = "ids_batch"
    /\ UNCHANGED <<schedVars, dlVars, fnVars, initial_ids, follow_shortcuts, follow_parents,
                   flush_rows,
                   mode, folders_continue, folders_queue, folders_seen,
                   store, pbar_total, pbar_n, errors, restarts, history, discovered>>

\* rate_limited_as_completed starts the next coroutine of the batch, in
\* submission order, while fewer than max_concurrent are in flight (its
\* quota sleep only delays this step).
start_op ==
    /\ pc \in {"folder_batch", "ids_batch"}
    /\ started < Len(ops)
    /\ Cardinality(inflight) < max_concurrent
    /\ started' = started + 1
    /\ inflight' = inflight \cup {started + 1}
    /\ UNCHANGED <<schedVars, dlVars, fnVars, initial_ids, follow_shortcuts, follow_parents,
                   flush_rows,
                   mode, pc, frontier, store, ops, pbar_total, pbar_n,
                   errors, restarts, history, requests, discovered>>

\* lines 548-549 and 572-573: after the last result of a batch the progress
\* bar is updated and control returns to the loop test.
batch_end(i) ==
    LET last == started = Len(ops) /\ inflight = {i}
    IN /\ inflight' = inflight \ {i}
       /\ pbar_n' = IF last THEN pbar_n + Len(ops) ELSE pbar_n
       /\ pc' = IF ~last THEN pc
                ELSE IF pc = "folder_batch" THEN "inner" ELSE "outer"

\* lines 505-546: the result of a files.list request is consumed
list_done(i) ==
    /\ pc = "folder_batch"
    /\ i \in inflight
    /\ Commit(list_result(St, ops[i]))
    /\ LET files == pages(ops[i][1])[ops[i][2] + 1]
       IN append_rows(Range(files), {<<ops[i][1], c>> : c \in Range(files)})
    /\ resolved' = resolved \cup
          {c \in Range(pages(ops[i][1])[ops[i][2] + 1]) :
               mimeType(c) = "folder"}
    /\ batch_end(i)
    /\ UNCHANGED <<schedVars, dlVars, fnVars, initial_ids, follow_shortcuts, follow_parents,
                   flush_rows,
                   mode, ops, started, errors, restarts, crashed_once,
                   failed_once, unfinished, requests>>

\* lines 562-570: the result of a files.get request is consumed
get_done(i) ==
    /\ pc = "ids_batch"
    /\ i \in inflight
    /\ Commit(get_result(St, ops[i][1]))
    /\ append_rows({ops[i][1]}, {})
    /\ resolved' = resolved \cup
          (IF mimeType(ops[i][1]) = "folder" THEN {ops[i][1]} ELSE {})
    /\ batch_end(i)
    /\ UNCHANGED <<schedVars, dlVars, fnVars, initial_ids, follow_shortcuts, follow_parents,
                   flush_rows,
                   mode, ops, started, errors, restarts, crashed_once,
                   failed_once, unfinished, requests>>

\* mutant of op_failed: the request that raised is queued again
op_failed_requeued(i) ==
    /\ pc \in {"folder_batch", "ids_batch"}
    /\ i \in inflight
    /\ errors < MaxErrors
    /\ errors' = errors + 1
    /\ failed_once' = TRUE
    /\ batch_end(i)
    /\ IF pc = "folder_batch"
       THEN /\ folders_continue' = Append(folders_continue, ops[i])
            /\ UNCHANGED ids_queue
       ELSE /\ ids_queue' = ids_queue \cup {ops[i][1]}
            /\ UNCHANGED folders_continue
    /\ UNCHANGED <<schedVars, dlVars, fnVars, initial_ids, follow_shortcuts,
                   follow_parents, flush_rows, mode, folders_queue,
                   folders_seen, ids_seen,
                   store, ops, started, pbar_total, restarts, crashed_once,
                   resolved, unfinished, requeued, requests, discovered>>

\* lines 505-507 and 562-564: the request raised, err_track recorded it and
\* returned None: `if not res: continue`
op_failed(i) ==
    /\ pc \in {"folder_batch", "ids_batch"}
    /\ i \in inflight
    /\ errors < MaxErrors
    /\ errors' = errors + 1
    /\ failed_once' = TRUE
    /\ batch_end(i)
    /\ UNCHANGED <<schedVars, dlVars, fnVars, initial_ids, follow_shortcuts, follow_parents,
                   flush_rows,
                   mode, frontier, store, ops, started, pbar_total, restarts,
                   crashed_once, resolved, unfinished, requeued, requests, discovered>>

\* lines 575-588: what is left in the buffers is written and committed
final_flush ==
    /\ pc = "flush"
    /\ metadata' = insert_or_replace(metadata, metadata_queue)
    /\ hierarchy' = insert_or_ignore(hierarchy, hierarchy_queue)
    /\ metadata_queue' = <<>>
    /\ hierarchy_queue' = <<>>
    /\ pc' = "done"
    /\ UNCHANGED <<schedVars, dlVars, fnVars, initial_ids, follow_shortcuts, follow_parents,
                   flush_rows,
                   mode, frontier, ops, started, inflight, pbar_total,
                   pbar_n, errors, restarts, history, requests, discovered>>

\* The process is killed: everything in memory is gone, the committed
\* tables stay.
crash ==
    /\ pc \in {"outer", "inner", "ids", "folder_batch", "ids_batch", "flush"}
    /\ restarts < MaxRestarts
    /\ pc' = "crashed"
    /\ folders_continue' = <<>>
    /\ folders_queue' = {}
    /\ folders_seen' = {}
    /\ ids_queue' = {}
    /\ ids_seen' = {}
    /\ metadata_queue' = <<>>
    /\ hierarchy_queue' = <<>>
    /\ ops' = <<>>
    /\ started' = 0
    /\ inflight' = {}
    /\ pbar_total' = 0
    /\ pbar_n' = 0
    /\ errors' = 0
    /\ crashed_once' = TRUE
    /\ resolved' = {}
    /\ requeued' = {}
    /\ issued' = {}
    /\ twice' = FALSE
    /\ restored' = [fs |-> {}, is |-> {}]
    /\ discovered' = [rows |-> {}, edges |-> {}]
    /\ unfinished' =
          {f \in folders_queue \cup folders_seen
                   \cup {folders_continue[k][1] : k \in DOMAIN folders_continue} :
              \E c \in listed_children(f) : <<f, c>> \notin Range(hierarchy)}
    /\ UNCHANGED <<schedVars, dlVars, fnVars, initial_ids, follow_shortcuts, follow_parents,
                   flush_rows,
                   mode, metadata, hierarchy, restarts, failed_once>>

\* the frontier a restarted run begins with (lines 372-381, 416-421)
restart(q, m) ==
    /\ pc \in {"crashed", "done"}
    /\ restarts < MaxRestarts
    /\ restarts' = restarts + 1
    /\ mode' = m
    /\ pc' = "outer"
    /\ folders_continue' = <<>>
    /\ folders_queue' = q.fq
    /\ folders_seen' = q.fs
    /\ ids_queue' = q.iq
    /\ ids_seen' = q.is
    /\ metadata_queue' = <<>>
    /\ hierarchy_queue' = <<>>
    /\ ops' = <<>>
    /\ started' = 0
    /\ inflight' = {}
    /\ pbar_total' = Cardinality(q.iq) + Cardinality(q.fq)
    /\ pbar_n' = 0
    /\ errors' = 0
    /\ resolved' = {}
    /\ requeued' = q.fq
    /\ issued' = {}
    /\ twice' = FALSE
    /\ restored' = [fs |-> q.fs, is |-> q.is]
    /\ discovered' = [rows |-> {}, edges |-> {}]
    /\ UNCHANGED <<schedVars, dlVars, fnVars, initial_ids, follow_shortcuts, follow_parents,
                   flush_rows,
                   metadata, hierarchy, crashed_once, failed_once,
                   unfinished>>

\* the tool is run again with --restore on the store
restore == restart(restore_queues(initial_ids, metadata, hierarchy), "restore")

\* the tool is run again with --fix-missing-parents on the store
fix_restore == restart(fix_restore_queues(metadata, hierarchy), "fix")

Next ==
    \/ outer_loop
    \/ inner_loop_exit
    \/ \E S \in SUBSET folders_queue : \E p \in pop_orders(S) : folder_batch(p)
    \/ ids_skip
    \/ \E S \in SUBSET ids_queue : \E p \in pop_orders(S) : ids_batch(p)
    \/ start_op
    \/ \E i \in inflight : list_done(i)
    \/ \E i \in inflight : get_done(i)
    \/ \E i \in inflight : op_failed(i)
    \/ final_flush
    \/ crash
    \/ restore
    \/ fix_restore

Spec == Init /\ [][Next]_vars

SpecWide == InitWide /\ [][Next]_vars

(***************************************************************************)
(* Batch formation on its own: the inner loop test of line 476 is reached  *)
(* with some frontier. The folders known are A, B, C and P; a folder has   *)
(* at most one continuation pending, and a folder with a continuation      *)
(* pending or already listed is in folders_seen.                           *)
(***************************************************************************)
\* most continuations pending at once, and the page tokens they carry
MaxContinue == 3
PageTokens == 1..2

\* the lists of at most n continuations over the folders of F, no folder
\* twice
RECURSIVE continuations(_, _)
continuations(F, n) ==
    IF n = 0 THEN {<<>>}
    ELSE {<<>>} \cup UNION {{<<<<f, t>>>> \o rest :
                               rest \in continuations(F \ {f}, n - 1)} :
                           f \in F, t \in PageTokens}

InitBatch ==
    /\ SchedIdle
    /\ DlIdle
    /\ FnIdle
    /\ follow_shortcuts = TRUE
    /\ follow_parents = FALSE
    /\ quota \in CrawlQuotas
    /\ max_concurrent \in 1..quota
    /\ initial_ids = {"A"}
    /\ flush_rows = FLUSH_ROWS
    /\ mode = "fresh"
    /\ pc = "inner"
    /\ folders_continue \in continuations({"A", "B", "C"}, MaxContinue)
    /\ folders_queue \in
           SUBSET ({"A", "B", "C", "P"}
                      \ {folders_continue[k][1] : k \in DOMAIN folders_continue})
    /\ folders_seen = {folders_continue[k][1] : k \in DOMAIN folders_continue}
    /\ ids_queue \in SUBSET {"E", "Y", "Z"}
    /\ ids_seen = {"D", "X"}
    /\ metadata_queue = <<>>
    /\ hierarchy_queue = <<>>
    /\ metadata = {}
    /\ hierarchy = <<>>
    /\ ops = <<>>
    /\ started = 0
    /\ inflight = {}
    /\ pbar_total = Len(folders_continue) + Cardinality(folders_queue)
                        + Cardinality(ids_queue)
    /\ pbar_n = 0
    /\ errors = 0
    /\ restarts = 0
    /\ crashed_once = FALSE
    /\ failed_once = FALSE
    /\ resolved = {}
    /\ unfinished = {}
    /\ requeued = {}
    /\ issued = {}
    /\ twice = FALSE
    /\ restored = [fs |-> {}, is |-> {}]
    /\ discovered = [rows |-> {}, edges |-> {}]

NextBatch ==
    \/ inner_loop_exit
    \/ \E S \in SUBSET folders_queue : \E p \in pop_orders(S) : folder_batch(p)
    \/ ids_skip
    \/ \E S \in SUBSET ids_queue : \E p \in pop_orders(S) : ids_batch(p)

SpecBatch == InitBatch /\ [][NextBatch]_vars


(***************************************************************************)
(* Claims about the crawl, checked under Spec.                             *)
(***************************************************************************)

\* The ids the claim C1 calls reachable from a set of ids: children of
\* listed folders, shortcut targets when shortcuts are followed, listed
\* parents when parents are followed.
reach_step(R) ==
    R \cup UNION {listed_children(id) : id \in {r \in R : mimeType(r) = "folder"}}
      \cup (IF follow_shortcuts
            THEN {targetId(id) : id \in {r \in R : mimeType(r) = "shortcut"}}
            ELSE {})
      \cup (IF follow_parents
            THEN UNION {Range(parents(id)) : id \in R}
            ELSE {})

RECURSIVE reachable(_)
reachable(R) == IF reach_step(R) = R THEN R ELSE reachable(reach_step(R))

\* The rows an uninterrupted crawl with no failing request ends with: every
\* id fetched by itself or returned by a listing; the folders it lists are
\* the folders among them and, when parents are followed, their parents.
crawl_listed(R) ==
    {r \in R : mimeType(r) = "folder"}
      \cup (IF follow_parents THEN UNION {Range(parents(id)) : id \in R}
            ELSE {})

crawl_step(R) ==
    R \cup UNION {listed_children(f) : f \in crawl_listed(R)}
      \cup (IF follow_shortcuts
            THEN {targetId(id) : id \in {r \in R : mimeType(r) = "shortcut"}}
            ELSE {})

RECURSIVE crawl_rows(_)
crawl_rows(R) == IF crawl_step(R) = R THEN R ELSE crawl_rows(crawl_step(R))

crawl_edges(R) ==
    UNION {{<<f, c>> : c \in listed_children(f)} : f \in crawl_listed(R)}

\* What an uninterrupted fresh crawl leaves in the store (a check of the
\* two definitions above against the model).
UninterruptedCrawlResult ==
    (pc = "done" /\ mode = "fresh" /\ ~failed_once) =>
        /\ metadata = crawl_rows(initial_ids)
        /\ Range(hierarchy) = crawl_edges(crawl_rows(initial_ids))

\* C1 (the claim as stated): when a fresh crawl with no failing operation
\* terminates, every id reachable from the seeds (listed parents included
\* when parents are followed) has a row, and every listed (parent, child)
\* pair is in the hierarchy table.
C1_FreshCrawlComplete ==
    (pc = "done" /\ mode = "fresh" /\ ~failed_once) =>
        /\ reachable(initial_ids) \subseteq metadata
        /\ \A p \in reachable(initial_ids) :
               mimeType(p) = "folder" =>
                   \A c \in listed_children(p) : <<p, c>> \in Range(hierarchy)

\* a run killed once, restarted with --restore and run to its end, no
\* request having failed
ResumedCrawlDone ==
    pc = "done" /\ mode = "restore" /\ crashed_once /\ ~failed_once

\* every folder the killed run knew and had not completely persisted was in
\* the restored folders_queue or has been queued again since
UnfinishedFoldersRequeued == unfinished \subseteq requeued

\* C2 (the claim as stated, already for the default follow_parents=False):
\* after a crash and --restore, every folder that was known to the killed
\* run and whose listing was not completely persisted was in the restored
\* folders_queue or has been queued again by the time the resumed crawl
\* ends.
C2_NoUnfinishedFolderSkipped ==
    (ResumedCrawlDone /\ ~follow_parents) => UnfinishedFoldersRequeued

\* C3 (the claim as stated, already for the default follow_parents=False
\* and for the runs in which no unfinished folder was skipped): after a
\* crash, --restore and the resumed crawl run to its end, the tables hold
\* everything an uninterrupted crawl holds.
C3_CrashResumeEquivalence ==
    (ResumedCrawlDone /\ ~follow_parents /\ UnfinishedFoldersRequeued) =>
        /\ crawl_rows(initial_ids) \subseteq metadata
        /\ crawl_edges(crawl_rows(initial_ids)) \subseteq Range(hierarchy)

\* the requests a run has handed to the scheduler and seen started
requests_started ==
    IF pc \in {"folder_batch", "ids_batch"} THEN pbar_n + started ELSE pbar_n

\* one files.list request per page of every folder and one files.get
\* request per id
request_budget ==
    Cardinality(Ids) + Cardinality({<<f, k>> \in Ids \X (1..4) :
                                        /\ mimeType(f) = "folder"
                                        /\ k <= Len(pages(f))})

\* C11: the crawl terminates on a hierarchy with cycles (the shortcut X
\* targets its ancestor A, parent-following leads back to known folders) and
\* with failing operations: a run (fresh or restored) never starts more
\* requests than one per listing page and one per id, a batch in progress
\* always has a request in flight or one left to start, and when the run has
\* ended folders_continue, folders_queue and ids_queue are all empty.
C11_CrawlTerminates ==
    /\ requests_started <= request_budget
    /\ pc \in {"folder_batch", "ids_batch"} =>
           (inflight # {} \/ (started < Len(ops) /\ max_concurrent > 0))
    /\ pc \in {"flush", "done"} =>
           (folders_continue = <<>> /\ folders_queue = {} /\ ids_queue = {})

\* C11 witness: a crawl that followed the shortcut X back to A and the
\* listed parents, and in which a request failed, has ended.
C11_Witness ==
    /\ pc = "done"
    /\ follow_shortcuts /\ follow_parents
    /\ "X" \in ids_seen
    /\ "A" \in folders_seen
    /\ errors > 0

\* C8: in every state of a run (fresh, restored by restore_queues or by
\* fix_restore_queues) ids_queue and ids_seen are disjoint and
\* folders_queue and folders_seen are disjoint.
C8_QueuesDisjointFromSeen ==
    /\ ids_queue \cap ids_seen = {}
    /\ folders_queue \cap folders_seen = {}

\* C8 witness: a run restored by restore_queues has consumed a batch and
\* all four sets are non-empty.
C8_Witness ==
    /\ mode = "restore"
    /\ pbar_n > 0
    /\ ids_queue # {} /\ ids_seen # {}
    /\ folders_queue # {} /\ folders_seen # {}

\* C9 (the claim as stated): an id resolved as a folder is never in
\* (folders_queue \cup folders_seen) and in (ids_queue \cup ids_seen) at once.
C9_ResolvedFolderInOneFamily ==
    \A id \in resolved :
        ~(id \in folders_queue \cup folders_seen
             /\ id \in ids_queue \cup ids_seen)

\* C9 (amended): an id whose attributes the current run obtained as a
\* folder is never in (folders_queue \cup folders_seen) and in ids_queue at
\* once.
C9_ResolvedFolderNotInIdsQueue ==
    \A id \in resolved :
        ~(id \in folders_queue \cup folders_seen /\ id \in ids_queue)

\* C9 witness: folder A was resolved and afterwards the shortcut X, whose
\* target is A, was processed.
C9_Witness ==
    /\ mode = "fresh"
    /\ follow_shortcuts
    /\ "A" \in resolved
    /\ "X" \in ids_seen
    /\ "A" \in folders_seen

\* C10 (the claim as stated): no get-single-entity operation is started
\* while folders_continue or folders_queue is non-empty.
C10_NoGetStartedDuringFolderWork ==
    [][(pc = "ids_batch" /\ started' = started + 1) =>
          (folders_continue = <<>> /\ folders_queue = {})]_vars

\* C10 (amended): a batch of get-single-entity operations is formed and
\* handed to the scheduler only when folders_continue and folders_queue
\* are both empty.
C10_IdsBatchFormedAfterFolders ==
    (pc = "ids" \/ (pc = "ids_batch" /\ started = 0 /\ inflight = {})) =>
        (folders_continue = <<>> /\ folders_queue = {})

\* C10 witness: a generic-id batch has just been formed after folders were
\* listed, while more ids than fit the chunk keep waiting.
C10_Witness ==
    /\ pc = "ids_batch"
    /\ started = 0
    /\ folders_seen # {}
    /\ ids_queue # {}

\* C21 (the claim as stated): within one run no request is handed to the
\* scheduler twice, and no folder or id that restore_queues or
\* fix_restore_queues placed in folders_seen or ids_seen is the subject of
\* any request of the resumed run.
C21_SeenNeverRequested ==
    /\ ~twice
    /\ \A r \in issued : r[2] \notin restored.fs \cup restored.is

\* C21 (amended): within one run no request is handed to the scheduler
\* twice (a first listing page, a continuation token, an individual fetch),
\* failed requests included; no folder that began the run in folders_seen is
\* listed and no id that began the run in ids_seen is fetched individually.
C21_NoRequestTwice ==
    /\ ~twice
    /\ \A r \in issued :
          /\ r[1] = "list" => r[2] \notin restored.fs
          /\ r[1] = "get" => r[2] \notin restored.is

\* C21 witness: a run restored by restore_queues, which began with folders
\* and ids marked seen, has ended after listing folders (a continuation
\* among the requests), fetching ids and seeing a request fail.
C21_Witness ==
    /\ pc = "done"
    /\ mode = "restore"
    /\ errors > 0
    /\ restored.fs # {} /\ restored.is # {}
    /\ \E r \in issued : r[1] = "list" /\ r[3] > 0
    /\ \E r \in issued : r[1] = "get"

\* restore_queues or fix_restore_queues has just returned: the run holds the
\* four sets as returned and has not formed a batch yet
JustRestored(m) == pc = "outer" /\ mode = m /\ issued = {} /\ pbar_n = 0

\* the stored folders: the ids whose row says folder
stored_folders == {id \in metadata : mimeType(id) = "folder"}

\* the parents of the edge table
edge_parents == {hierarchy[i][1] : i \in DOMAIN hierarchy}

\* the suspects the claim C23 names: stored folders with no outgoing edge,
\* parents without a folder row, parents among the N newest edge rows
suspect_folders ==
    {f \in stored_folders : f \notin edge_parents}
      \cup (edge_parents \ stored_folders)
      \cup {hierarchy[i][1] : i \in {j \in DOMAIN hierarchy :
                                         j > Len(hierarchy) - N}}

\* the backup floor: when the N newest edge rows name fewer than BACKUP
\* distinct parents, the BACKUP newest distinct parents of the whole table
\* (a parent is among them when fewer than BACKUP distinct parents have a
\* row newer than its newest row)
backup_folders ==
    IF Cardinality({hierarchy[i][1] : i \in {j \in DOMAIN hierarchy :
                                                 j > Len(hierarchy) - N}})
           >= BACKUP
    THEN {}
    ELSE {p \in edge_parents :
             LET newest == CHOOSE i \in DOMAIN hierarchy :
                               /\ hierarchy[i][1] = p
                               /\ \A j \in DOMAIN hierarchy :
                                      hierarchy[j][1] = p => j <= i
             IN Cardinality({hierarchy[j][1] :
                                j \in {k \in DOMAIN hierarchy : k > newest}})
                    < BACKUP}

\* C23 (the claim as stated): restore_queues returns every suspect folder in
\* folders_queue and every other stored folder in folders_seen, and every
\* stored folder in exactly one of the two.
C23_SuspectsQueuedOthersSeen ==
    JustRestored("restore") =>
        /\ suspect_folders \subseteq folders_queue
        /\ stored_folders \ suspect_folders \subseteq folders_seen
        /\ \A f \in stored_folders :
               (f \in folders_queue) # (f \in folders_seen)

\* C23 (amended): the same with the backup floor counted among the
\* suspects; the two sets returned are exactly these.
C23_SuspectsAndBackupQueued ==
    JustRestored("restore") =>
        /\ folders_queue = suspect_folders \cup backup_folders
        /\ folders_seen = stored_folders \ folders_queue
        /\ \A f \in stored_folders :
               (f \in folders_queue) # (f \in folders_seen)

\* C23 witness: restore_queues has returned on a store with a parent that
\* has no row, a folder that only the backup floor makes suspect and a
\* folder that is not suspect.
C23_Witness ==
    /\ JustRestored("restore")
    /\ edge_parents \ stored_folders # {}
    /\ backup_folders \ suspect_folders # {}
    /\ folders_seen # {}

\* the children of the edge table
edge_children == {hierarchy[i][2] : i \in DOMAIN hierarchy}

\* what the claim C24 says of the two id sets restore_queues returns
ids_seeded ==
    /\ ids_seen = metadata \ stored_folders
    /\ ids_queue = ((initial_ids \cup edge_children)
                        \ (folders_queue \cup folders_seen)) \ ids_seen
    /\ ids_queue \cap metadata = {}

\* C24 (the claim as stated): ids_seen is the set of stored non-folder ids,
\* ids_queue is (seeds and edge children) minus the two folder sets minus
\* ids_seen, no id with a row is in ids_queue, and every edge child without
\* a row is in ids_queue.
C24_MissingChildrenQueued ==
    JustRestored("restore") =>
        /\ ids_seeded
        /\ \A c \in edge_children \ metadata : c \in ids_queue

\* C24 (amended): the same, but an edge child without a row that is itself
\* a parent in the edge table is in folders_queue and not in ids_queue.
C24_MissingChildrenQueuedOrListed ==
    JustRestored("restore") =>
        /\ ids_seeded
        /\ \A c \in edge_children \ metadata :
               IF c \in edge_parents
               THEN c \in folders_queue /\ c \notin ids_queue
               ELSE c \in ids_queue

\* C24 witness: restore_queues has returned on a store in which one edge
\* child without a row has edges of its own and another has none, and in
\* which non-folder rows exist.
C24_Witness ==
    /\ JustRestored("restore")
    /\ \E c \in edge_children \ metadata : c \in edge_parents
    /\ \E c \in edge_children \ metadata : c \in ids_queue
    /\ ids_seen # {}

\* the missing parents fix_restore_queues found when the run began: it put
\* them in folders_seen and, alone of that set, not in ids_seen
missing_at_restore == restored.fs \ restored.is

below_threshold(st) == Len(st.mq) < flush_rows /\ Len(st.hq) < flush_rows

\* the state after the first k children of the listing page asked for by
\* request op have been handled
after_children(op, k) ==
    LET page == op[2] + 1
        s1 == IF page < Len(pages(op[1]))
              THEN [St EXCEPT !.fc = Append(@, <<op[1], page>>),
                              !.total = @ + 1]
              ELSE St
    IN list_children(s1, op[1], SubSeq(pages(op[1])[page], 1, k))

\* C26: after each discovered row is handled both buffers hold fewer rows
\* than the threshold (between two results, and after each child of the
\* result that comes next); every row and edge the run has appended is in
\* its buffer or committed; when the crawl has ended normally both buffers
\* are empty and every appended row and edge is committed.
C26_BuffersBoundedAndFlushed ==
    /\ below_threshold(St)
    /\ pc = "folder_batch" =>
           \A i \in inflight :
               \A k \in 0..Len(pages(ops[i][1])[ops[i][2] + 1]) :
                   below_threshold(after_children(ops[i], k))
    /\ discovered.rows \subseteq metadata \cup Range(metadata_queue)
    /\ discovered.edges \subseteq Range(hierarchy) \cup Range(hierarchy_queue)
    /\ pc = "done" =>
           /\ metadata_queue = <<>> /\ hierarchy_queue = <<>>
           /\ discovered.rows \subseteq metadata
           /\ discovered.edges \subseteq Range(hierarchy)

\* C26 witness: an uninterrupted crawl that appended more rows and more
\* edges than one buffer holds has ended.
C26_Witness ==
    /\ pc = "done"
    /\ mode = "fresh"
    /\ Cardinality(discovered.rows) > flush_rows
    /\ Cardinality(discovered.edges) > flush_rows
    /\ Len(hierarchy) % flush_rows # 0

\* C27: every batch handed to the scheduler holds at most CHUNK_SIZE
\* operations. When a folder batch is formed, it starts with the oldest
\* continuations in their queue order, as many as the chunk takes; folders
\* popped from folders_queue follow and fill only what the continuations
\* leave; each popped folder leaves folders_queue and enters folders_seen in
\* the same step.
C27_BatchFormation ==
    [][/\ (ops' # ops => Len(ops') <= CHUNK_SIZE)
       /\ (pc = "inner" /\ pc' = "folder_batch") =>
             LET k == Min(CHUNK_SIZE, Len(folders_continue))
                 fresh == {ops'[j][1] : j \in (k + 1)..Len(ops')}
             IN /\ Len(ops') >= k
                /\ \A j \in 1..k : ops'[j] = folders_continue[j]
                /\ folders_continue' =
                       [j \in 1..(Len(folders_continue) - k) |->
                           folders_continue[j + k]]
                /\ Len(ops') - k =
                       Min(CHUNK_SIZE - k, Cardinality(folders_queue))
                /\ \A j \in (k + 1)..Len(ops') : ops'[j][2] = 0
                /\ fresh \subseteq folders_queue
                /\ Cardinality(fresh) = Len(ops') - k
                /\ folders_queue' = folders_queue \ fresh
                /\ folders_seen' = folders_seen \cup fresh
      ]_vars

\* a full folder batch formed: two continuations in front and popped
\* folders behind them
C27_Witness ==
    /\ pc = "folder_batch"
    /\ started = 0
    /\ Len(ops) = CHUNK_SIZE
    /\ Len(ops) >= 3
    /\ ops[1][2] > 0
    /\ ops[2][2] > 0
    /\ ops[Len(ops)][2] = 0

\* the requests waiting in the three queues
queued_requests ==
    Len(folders_continue) + Cardinality(folders_queue) + Cardinality(ids_queue)

\* C28: between batches the progress total is the number of requests
\* completed plus the requests waiting in folders_continue, folders_queue
\* and ids_queue; while a batch runs the same balance holds with the
\* requests of the batch counted as pending, so a result that takes an id out
\* of ids_queue takes one off the total; once the loops have ended the
\* completed count equals the total.
C28_ProgressAccounting ==
    /\ pc \in {"outer", "inner", "ids"} =>
          pbar_total = pbar_n + queued_requests
    /\ pc \in {"folder_batch", "ids_batch"} =>
          pbar_total = pbar_n + Len(ops) + queued_requests
    /\ pc \in {"flush", "done"} => pbar_n = pbar_total

\* a run ended in which a seed was never fetched on its own: a listing
\* took it out of ids_queue; a request of the run had failed
C28_Witness ==
    /\ pc = "done"
    /\ pbar_n > 0
    /\ errors > 0
    /\ \E id \in initial_ids :
          id \in ids_seen /\ <<"get", id, 0>> \notin issued

\* C31: table hierarchy never holds the same (parent, child) pair in two
\* rows, and no step of a crawl, of a kill, or of a restored run takes a
\* committed row away or moves it: the table before the step is a prefix
\* of the table after it.
C31_EdgesUniqueAppendOnly ==
    /\ [](\A i, j \in DOMAIN hierarchy :
            hierarchy[i] = hierarchy[j] => i = j)
    /\ [][/\ Len(hierarchy) <= Len(hierarchy')
          /\ \A i \in DOMAIN hierarchy : hierarchy'[i] = hierarchy[i]]_vars

\* C31 witness: a restored run has ended after it listed a folder again
\* whose edge an earlier run had committed: the edge was appended by this
\* run and stands in the table before an edge this run never appended.
C31_Witness ==
    /\ pc = "done"
    /\ mode = "restore"
    /\ \E i, j \in DOMAIN hierarchy :
          /\ i < j
          /\ hierarchy[i] \in discovered.edges
          /\ hierarchy[j] \notin discovered.edges

\* the ids of table hierarchy, parents and children
edge_ids == {hierarchy[k][1] : k \in DOMAIN hierarchy}
               \cup {hierarchy[k][2] : k \in DOMAIN hierarchy}

\* C33 (the claim as stated): when a run has ended and no request of any
\* run on the store has failed, every id of table hierarchy has a row in
\* table metadata.
C33_EveryEdgeIdHasRow ==
    (pc = "done" /\ ~failed_once) => edge_ids \subseteq metadata

\* the same for fresh runs that were never killed and do not follow parents
C33_FreshRunHasRows ==
    (mode = "fresh" /\ ~crashed_once /\ ~follow_parents) =>
        C33_EveryEdgeIdHasRow


(***************************************************************************)
(* src/dl.py: download_and_save                                            *)
(*                                                                         *)
(* The store the pass reads (tables metadata and hierarchy):               *)
(*                                                                         *)
(*   dir     folder of o1: [broken, orphan, file, hidden, loopA]           *)
(*   broken  file whose attributes lack "version"                          *)
(*   orphan  file; in one of the stores its metadata row is missing        *)
(*   file    file                                                          *)
(*   hidden  folder of edu (on the pattern denylist): [secret]             *)
(*   loopA   folder: [loopB]       loopB  folder: [loopA, leaf]            *)
(*           (in one of the edge tables loopB lists `file` too, in another *)
(*           one dir lists loopB after loopA)                              *)
(*   shared  file of the two owners o1 and o2, no edge names it            *)
(*   banned  file of bad (on the exact denylist), no edge names it         *)
(*   doc     editable document of o2, no edge names it                     *)
(*                                                                         *)
(* A path is the sequence of names below out_dir; the name of an item      *)
(* stands for "{name}_{id}", the name of an owner folder for               *)
(* "{displayName}_{emailAddress}". only_0B is off, its default.            *)
(***************************************************************************)

\* runs of download_and_save on the same store and output directory
MaxPasses == 2
\* download or export operations that raise, per behaviour
MaxRaises == 1

\* line 795: `len(things_to_download) > max_concurrent * 100`, scaled
QUEUE_FACTOR == 1

\* the caps and quotas download_and_save is run with (download_concurrent
\* is not checked against quota before the pass)
DlCaps == 1..2
DlQuotas == 1..2

\* `SELECT id FROM metadata` returns the rows in this order
row_order == <<"dir", "broken", "orphan", "file", "hidden", "secret",
               "loopA", "loopB", "leaf", "shared", "banned", "doc">>

\* the rows of table hierarchy
stored_edges == <<<<"dir", "broken">>, <<"dir", "orphan">>, <<"dir", "file">>,
                  <<"dir", "hidden">>, <<"dir", "loopA">>,
                  <<"hidden", "secret">>,
                  <<"loopA", "loopB">>, <<"loopB", "loopA">>,
                  <<"loopB", "leaf">>>>

\* the edge tables: in the second one folder loopB lists `file` as well,
\* after folder dir did; in the third one folder dir lists loopB itself,
\* after loopA
StoredEdges == {stored_edges, Append(stored_edges, <<"loopB", "file">>),
                Append(stored_edges, <<"dir", "loopB">>)}

\* the stores: every row is there, or the row of `orphan` never was
\* written, or the row of `dir` never was (a parent that was listed because
\* a child named it, see queue_parent_folder_shortcut), or the row of
\* `leaf` never was
StoredRows == {Range(row_order), Range(row_order) \ {"orphan"},
               Range(row_order) \ {"dir"}, Range(row_order) \ {"leaf"}}

\* export_config.py: the denylists (empty in the source, to be filled in)
OWNER_BLACKLIST == {"bad"}
REGEX_BLACKLIST == {"edu"}

\* export_config.py WORKSPACE_EXPORT with WORKSPACE_EXPORT_MIME_EXTENSION:
\* the extensions a document is exported to
WORKSPACE_EXPORT == <<".docx", ".pdf">>

\* the attributes load_metadata(id) returns
attributes(id) ==
    [mimeType |-> IF id \in {"dir", "hidden", "loopA", "loopB"} THEN "folder"
                  ELSE IF id = "doc" THEN "document" ELSE "file",
     owners |-> IF id = "hidden" THEN <<"edu">>
                ELSE IF id = "banned" THEN <<"bad">>
                ELSE IF id = "shared" THEN <<"o1", "o2">>
                ELSE IF id = "doc" THEN <<"o2">>
                ELSE <<"o1">>,
     has_version |-> id # "broken"]

\* mutant of load_children: a child belongs to the parent of its first edge
load_children_first_parent(ht, id) ==
    LET rows == {k \in DOMAIN ht :
                    /\ ht[k][1] = id
                    /\ \A j \in 1..(k - 1) : ht[j][2] # ht[k][2]}
        RECURSIVE in_order(_)
        in_order(K) ==
            IF K = {} THEN <<>>
            ELSE LET k == CHOOSE x \in K : \A y \in K : x <= y
                 IN <<ht[k][2]>> \o in_order(K \ {k})
    IN in_order(rows)

\* load_children(id), lines 655-659
load_children(ht, id) ==
    LET rows == SelectSeq(ht, LAMBDA e : e[1] = id)
    IN [k \in DOMAIN rows |-> rows[k][2]]

\* is_child(id), lines 661-665
is_child(ht, id) == \E k \in DOMAIN ht : ht[k][2] = id

\* lines 823-827: the ids of the metadata table
metadata_ids(mt) == SelectSeq(row_order, LAMBDA id : id \in mt)

\* mutant of owner_foldernames: only the first owner gets a folder
owner_foldernames_first(id) == SubSeq(attributes(id).owners, 1, 1)

\* Item.owner_foldernames: one name per owner
owner_foldernames(id) == attributes(id).owners

\* lines 673-688: some owner's address is on a denylist
owner_excluded(id) ==
    \E k \in DOMAIN attributes(id).owners :
        \/ attributes(id).owners[k] \in OWNER_BLACKLIST
        \/ attributes(id).owners[k] \in REGEX_BLACKLIST

\* mutant of on_branch: the branch is not consulted
on_branch_never(id, set) == FALSE

\* line 692: `item_id in id_set`
on_branch(id, set) == id \in set

\* is_suceeded(id), lines 645-647
is_suceeded(dl, id) == id \in dl

\* clear_suceeded(id), lines 641-643
clear_suceeded(dl, id) == dl \ {id}

\* mutant of add_suceeded: nothing is inserted
add_suceeded_nothing(dl, ids) == dl

\* add_suceeded(ids), lines 636-639
add_suceeded(dl, ids) == dl \cup Range(ids)

\* line 795
over_threshold(n) == n > max_concurrent * QUEUE_FACTOR

\* mutant of is_tuple: a None result passes for a tuple
is_tuple_always(res) == TRUE

\* lines 801 and 855: `isinstance(res, tuple)`
is_tuple(res) == res = "tuple"

\* mutant of ErrorTracker_call: a coroutine that raised yields a result
\* like one that returned
ErrorTracker_call_result(tr, outcome) ==
    IF outcome = "ok" THEN [tr EXCEPT !.res = "tuple"]
    ELSE IF outcome = "HTTPError"
    THEN [errors |-> tr.errors + 1, total |-> tr.total + 1, res |-> "tuple"]
    ELSE IF outcome = "HTTPError_no_body"
    THEN [errors |-> tr.errors + 1, total |-> tr.total, res |-> "tuple"]
    ELSE [tr EXCEPT !.res = "tuple"]

\* ErrorTracker.__call__ (src/util.py): the awaited coroutine returns, or
\* raises an HTTPError whose response carries an "error" body, or an
\* HTTPError without one, or another Exception, which is only printed.
ErrorTracker_call(tr, outcome) ==
    IF outcome = "ok" THEN [tr EXCEPT !.res = "tuple"]
    ELSE IF outcome = "HTTPError"
    THEN [errors |-> tr.errors + 1, total |-> tr.total + 1, res |-> "None"]
    ELSE IF outcome = "HTTPError_no_body"
    THEN [errors |-> tr.errors + 1, total |-> tr.total, res |-> "None"]
    ELSE [tr EXCEPT !.res = "None"]

Outcomes == {"ok", "HTTPError", "HTTPError_no_body", "Exception"}

\* the state a call of create_folders_dump_metadata works on; `check` says
\* that the call got as far as the queue test of line 795
Ds == [dirs |-> out_dirs, files |-> out_files, sidecars |-> out_sidecars,
       dl |-> downloaded, ttd |-> things_to_download, stack |-> stack,
       idset |-> id_set, loops |-> loops, log |-> scheduled,
       seen |-> decisions, check |-> FALSE]

\* lines 734-762: one export per configured format; did_succeed is cleared
\* with the first export that is queued
RECURSIVE export_each(_, _, _, _, _)
export_each(ds, id, item_path, exts, did_succeed) ==
    IF exts = <<>> THEN ds
    ELSE LET dest == <<item_path, Head(exts)>>
             look == [dest |-> dest, existed |-> dest \in ds.files,
                      recorded |-> id \in ds.dl]
         IN IF dest \notin ds.files \/ ~did_succeed
            THEN export_each(
                     [ds EXCEPT !.dl = IF did_succeed
                                       THEN clear_suceeded(@, id) ELSE @,
                                !.ttd = Append(@, [id |-> id, dest |-> dest]),
                                !.log = Append(@, dest),
                                !.seen = Append(@, <<look, TRUE>>)],
                     id, item_path, Tail(exts), FALSE)
            ELSE export_each([ds EXCEPT !.seen = Append(@, <<look, FALSE>>)],
                             id, item_path, Tail(exts), did_succeed)

\* mutant of download_raw: a file that is there is never fetched again
download_raw_if_missing(ds, id, item_path) ==
    LET dest == <<item_path, "">>
        look == [dest |-> dest, existed |-> dest \in ds.files,
                 recorded |-> id \in ds.dl]
    IN IF dest \notin ds.files
       THEN [ds EXCEPT !.dl = clear_suceeded(@, id),
                       !.ttd = Append(@, [id |-> id, dest |-> dest]),
                       !.log = Append(@, dest),
                       !.seen = Append(@, <<look, TRUE>>)]
       ELSE [ds EXCEPT !.seen = Append(@, <<look, FALSE>>)]

\* lines 763-787: the raw content of a file
download_raw(ds, id, item_path) ==
    LET dest == <<item_path, "">>
        did_succeed == is_suceeded(ds.dl, id)
        look == [dest |-> dest, existed |-> dest \in ds.files,
                 recorded |-> id \in ds.dl]
    IN IF dest \notin ds.files \/ ~did_succeed
       THEN [ds EXCEPT !.dl = IF did_succeed THEN clear_suceeded(@, id) ELSE @,
                       !.ttd = Append(@, [id |-> id, dest |-> dest]),
                       !.log = Append(@, dest),
                       !.seen = Append(@, <<look, TRUE>>)]
       ELSE [ds EXCEPT !.seen = Append(@, <<look, FALSE>>)]

\* create_folders_dump_metadata(path, item, id_set) up to its first await:
\* lines 673-688 the denylists, line 690 filename() (KeyError for the item
\* without "version", caught at line 808), lines 692-694 the loop test,
\* lines 696-699 a folder is entered, lines 708-792 a file is queued and
\* its sidecar written.
create_folders_dump_metadata(ds, path, id) ==
    IF owner_excluded(id) THEN ds
    ELSE IF ~attributes(id).has_version THEN ds
    ELSE LET item_path == Append(path, id)
         IN IF on_branch(id, ds.idset)
            THEN [ds EXCEPT !.loops = @ \cup {item_path}]
            ELSE IF attributes(id).mimeType = "folder"
            THEN [ds EXCEPT !.idset = @ \cup {id},
                            !.dirs = @ \cup {item_path},
                            !.stack = Append(@, [id |-> id, path |-> item_path,
                                                 k |-> 0])]
            ELSE LET queued ==
                         IF attributes(id).mimeType = "document"
                         THEN export_each(ds, id, item_path, WORKSPACE_EXPORT,
                                          is_suceeded(ds.dl, id))
                         ELSE download_raw(ds, id, item_path)
                 IN [queued EXCEPT !.sidecars = @ \cup {item_path},
                                   !.check = TRUE]

\* What a call leaves behind. Lines 795-806: when the queue is longer than
\* the threshold it is handed to rate_limited_as_completed, whose
\* ValueError (max_concurrent > quota) is raised inside the `try` of the
\* item and caught at line 808, the queue staying as it is.
DlCommit(ds) ==
    /\ out_dirs' = ds.dirs
    /\ out_files' = ds.files
    /\ out_sidecars' = ds.sidecars
    /\ downloaded' = ds.dl
    /\ things_to_download' = ds.ttd
    /\ stack' = ds.stack
    /\ id_set' = ds.idset
    /\ loops' = ds.loops
    /\ scheduled' = ds.log
    /\ decisions' = ds.seen
    /\ UNCHANGED <<executed, run_twice>>
    /\ flush_ok' = IF ds.check /\ over_threshold(Len(ds.ttd))
                       /\ max_concurrent <= quota
                    THEN {} ELSE flush_ok
    /\ IF ds.check /\ over_threshold(Len(ds.ttd))
       THEN IF max_concurrent > quota
            THEN dl_pc' = "walk" /\ pending' = {} /\ swallowed' = TRUE
            ELSE dl_pc' = "flush" /\ pending' = DOMAIN ds.ttd
                 /\ UNCHANGED swallowed
       ELSE dl_pc' = "walk" /\ pending' = {} /\ UNCHANGED swallowed

tree == <<out_dirs, out_files, out_sidecars>>
tracker == <<err_errors, err_total>>
dlHistory == <<ever_succeeded, raised, tree_before, clean>>

\* download_and_save begins on a store and an empty output directory
DlInit ==
    /\ SchedIdle
    /\ max_concurrent \in DlCaps
    /\ quota \in DlQuotas
    /\ CrawlNotRunning
    /\ metadata \in StoredRows
    /\ hierarchy \in StoredEdges
    /\ FnIdle
    /\ out_dirs = {}
    /\ out_files = {}
    /\ out_sidecars = {}
    /\ downloaded = {}
    /\ things_to_download = <<>>
    /\ dl_pc = "walk"
    /\ root_i = 1
    /\ owner_i = 0
    /\ stack = <<>>
    /\ id_set = {}
    /\ pending = {}
    /\ suceeeded = <<>>
    /\ err_errors = 0
    /\ err_total = 0
    /\ passes = 1
    /\ ever_succeeded = {}
    /\ scheduled = <<>>
    /\ decisions = <<>>
    /\ executed = {}
    /\ run_twice = FALSE
    /\ flush_ok = {}
    /\ raised = 0
    /\ swallowed = FALSE
    /\ loops = {}
    /\ tree_before = <<{}, {}, {}>>
    /\ clean = TRUE

\* lines 831-835 and 838, 842: the root loop passes over an id that is some
\* edge's child, or has gone through every owner folder of a root
root_skip ==
    /\ dl_pc = "walk"
    /\ stack = <<>>
    /\ root_i <= Len(metadata_ids(metadata))
    /\ LET id == metadata_ids(metadata)[root_i]
       IN \/ is_child(hierarchy, id)
          \/ owner_i = Len(owner_foldernames(id))
    /\ root_i' = root_i + 1
    /\ owner_i' = 0
    /\ UNCHANGED <<schedVars, crawlVars, fnVars, tree, downloaded,
                   things_to_download, dl_pc, stack, id_set, pending,
                   suceeeded, tracker, passes, scheduled, decisions,
                   executed, run_twice, flush_ok, swallowed, loops,
                   dlHistory>>

\* lines 836-841: for the next owner folder name of a root the folder is
\* made and create_folders_dump_metadata is called with a fresh set()
root_owner ==
    /\ dl_pc = "walk"
    /\ stack = <<>>
    /\ root_i <= Len(metadata_ids(metadata))
    /\ LET id == metadata_ids(metadata)[root_i]
       IN /\ ~is_child(hierarchy, id)
          /\ owner_i < Len(owner_foldernames(id))
          /\ LET path == <<owner_foldernames(id)[owner_i + 1]>>
             IN DlCommit(create_folders_dump_metadata(
                             [Ds EXCEPT !.dirs = @ \cup {path}, !.idset = {}],
                             path, id))
    /\ owner_i' = owner_i + 1
    /\ UNCHANGED <<schedVars, crawlVars, fnVars, root_i, suceeeded, tracker,
                   passes, dlHistory>>

\* lines 700-705: the next child of the innermost folder. load_metadata of
\* a child without a row raises (fetchone() is None) in the folder's own
\* frame: the `except` of line 808 ends the folder's call there, past
\* id_set.remove and past the sidecar.
child_step ==
    /\ dl_pc = "walk"
    /\ stack # <<>>
    /\ LET top == stack[Len(stack)]
           children == load_children(hierarchy, top.id)
       IN /\ top.k < Len(children)
          /\ LET child_id == children[top.k + 1]
             IN IF child_id \notin metadata
                THEN DlCommit([Ds EXCEPT
                                  !.stack = SubSeq(@, 1, Len(@) - 1)])
                ELSE DlCommit(create_folders_dump_metadata(
                                  [Ds EXCEPT !.stack[Len(stack)].k = top.k + 1],
                                  top.path, child_id))
    /\ UNCHANGED <<schedVars, crawlVars, fnVars, root_i, owner_i, suceeeded,
                   tracker, passes, dlHistory>>

\* lines 706-707 and 790-795: the child loop of the innermost folder is
\* over; the folder leaves id_set and gets its sidecar
folder_exit ==
    /\ dl_pc = "walk"
    /\ stack # <<>>
    /\ LET top == stack[Len(stack)]
       IN /\ top.k = Len(load_children(hierarchy, top.id))
          /\ DlCommit([Ds EXCEPT !.stack = SubSeq(@, 1, Len(@) - 1),
                                 !.idset = @ \ {top.id},
                                 !.sidecars = @ \cup {top.path},
                                 !.check = TRUE])
    /\ UNCHANGED <<schedVars, crawlVars, fnVars, root_i, owner_i, suceeeded,
                   tracker, passes, dlHistory>>

\* the place in `scheduled` of the operation at place i of the queue: the
\* queue holds the operations scheduled last
position(i) == Len(scheduled) - Len(things_to_download) + i

\* lines 797-806 and 851-860: the next result of a flush. The scheduler
\* has started the coroutines in queue order, at most max_concurrent at a
\* time, so one of the first max_concurrent unfinished ones completes. A
\* download that returns has written its file. After the last result the
\* queue is emptied and the ids that succeeded are inserted.
op_done(i, outcome) ==
    /\ dl_pc \in {"flush", "final"}
    /\ i \in pending
    /\ Cardinality({j \in pending : j < i}) < max_concurrent
    /\ outcome = "ok" \/ raised < MaxRaises
    /\ LET op == things_to_download[i]
           tr == ErrorTracker_call([errors |-> err_errors,
                                    total |-> err_total, res |-> "None"],
                                   outcome)
           suc == IF is_tuple(tr.res) THEN Append(suceeeded, op.id)
                  ELSE suceeeded
       IN /\ out_files' = IF outcome = "ok" THEN out_files \cup {op.dest}
                          ELSE out_files
          /\ ever_succeeded' = IF outcome = "ok"
                               THEN ever_succeeded \cup {op.id}
                               ELSE ever_succeeded
          /\ raised' = IF outcome = "ok" THEN raised ELSE raised + 1
          /\ err_errors' = tr.errors
          /\ err_total' = tr.total
          /\ pending' = pending \ {i}
          /\ executed' = executed \cup {position(i)}
          /\ run_twice' = (run_twice \/ position(i) \in executed)
          /\ flush_ok' = IF outcome = "ok" THEN flush_ok \cup {op.id}
                          ELSE flush_ok
          /\ IF pending = {i}
             THEN /\ things_to_download' = <<>>
                  /\ downloaded' = IF suc # <<>>
                                   THEN add_suceeded(downloaded, suc)
                                   ELSE downloaded
                  /\ suceeeded' = <<>>
                  /\ dl_pc' = IF dl_pc = "flush" THEN "walk" ELSE "done"
             ELSE /\ suceeeded' = suc
                  /\ UNCHANGED <<things_to_download, downloaded, dl_pc>>
    /\ UNCHANGED <<schedVars, crawlVars, fnVars, out_dirs, out_sidecars,
                   root_i, owner_i, stack, id_set, passes, scheduled,
                   decisions, swallowed, loops, tree_before, clean>>

\* lines 847-862: the root loop is over. What is still queued goes to
\* rate_limited_as_completed; its ValueError is raised outside every `try`
\* and ends download_and_save.
last_flush ==
    /\ dl_pc = "walk"
    /\ stack = <<>>
    /\ root_i > Len(metadata_ids(metadata))
    /\ IF things_to_download = <<>>
       THEN dl_pc' = "done" /\ pending' = {}
       ELSE IF max_concurrent > quota
       THEN dl_pc' = "aborted" /\ pending' = {}
       ELSE dl_pc' = "final" /\ pending' = DOMAIN things_to_download
    /\ flush_ok' = IF things_to_download # <<>> /\ max_concurrent <= quota
                    THEN {} ELSE flush_ok
    /\ UNCHANGED <<schedVars, crawlVars, fnVars, tree, downloaded,
                   things_to_download, root_i, owner_i, stack, id_set,
                   suceeeded, tracker, passes, scheduled, decisions,
                   executed, run_twice, swallowed, loops, dlHistory>>

\* the tool is run again (--restore-download) on the same store and output
\* directory: lines 617-618 and 903
next_pass ==
    /\ dl_pc \in {"done", "aborted"}
    /\ passes < MaxPasses
    /\ passes' = passes + 1
    /\ dl_pc' = "walk"
    /\ things_to_download' = <<>>
    /\ root_i' = 1
    /\ owner_i' = 0
    /\ stack' = <<>>
    /\ id_set' = {}
    /\ pending' = {}
    /\ suceeeded' = <<>>
    /\ err_errors' = 0
    /\ err_total' = 0
    /\ scheduled' = <<>>
    /\ decisions' = <<>>
    /\ executed' = {}
    /\ run_twice' = FALSE
    /\ flush_ok' = {}
    /\ loops' = {}
    /\ tree_before' = tree
    /\ clean' = (clean /\ dl_pc = "done" /\ raised = 0)
    /\ UNCHANGED <<schedVars, crawlVars, fnVars, tree, downloaded,
                   ever_succeeded, raised, swallowed>>

DlNext ==
    \/ root_skip
    \/ root_owner
    \/ child_step
    \/ folder_exit
    \/ \E i \in pending : \E outcome \in Outcomes : op_done(i, outcome)
    \/ last_flush
    \/ next_pass

SpecDl == DlInit /\ [][DlNext]_vars


(***************************************************************************)
(* Claims about the download pass, checked under SpecDl.                   *)
(***************************************************************************)

\* C12: when every earlier pass ran to its end with no operation raising,
\* a further pass over the same store and output directory queues no
\* download or export and leaves every directory, file and sidecar as it
\* was when the pass began.
C12_SecondPassIdle ==
    (passes >= 2 /\ clean) => (scheduled = <<>> /\ tree = tree_before)

\* C12 witness: a second pass over the complete store has ended after a
\* first pass that exported the document and downloaded the shared file.
C12_Witness ==
    /\ passes = 2
    /\ clean
    /\ dl_pc = "done"
    /\ metadata = Range(row_order)
    /\ {"doc", "shared", "leaf"} \subseteq downloaded

\* C13 (the claim as stated): whenever no flush is in progress, an id is in
\* table downloaded if and only if some download or export for it has
\* succeeded.
C13_DownloadedIffSucceeded ==
    dl_pc \notin {"flush", "final"} => downloaded = ever_succeeded

\* C13 (amended): an id is in table downloaded only if some download or
\* export for it has succeeded.
C13_DownloadedOnlyIfSucceeded == downloaded \subseteq ever_succeeded

\* C13 witness: a pass in which an operation raised has ended with rows in
\* table downloaded.
C13_Witness ==
    /\ dl_pc = "done"
    /\ raised > 0
    /\ downloaded # {}
    /\ \E k \in DOMAIN scheduled : scheduled[k][1][Len(scheduled[k][1])] \notin downloaded

\* the children of the folder at the end of path p that the walk has to
\* materialise: they have a row, are well-formed, are not excluded and are
\* not on the branch already
due_children(p) ==
    {c \in Range(load_children(hierarchy, p[Len(p)])) :
        /\ c \in metadata
        /\ attributes(c).has_version
        /\ ~owner_excluded(c)
        /\ c \notin Range(p)}

\* child c of the folder at path p has been materialised
materialised(p, c) ==
    IF attributes(c).mimeType = "folder" THEN Append(p, c) \in out_dirs
    ELSE Append(p, c) \in out_sidecars

\* C14: on a store with a folder cycle reachable from a root (dir -> loopA
\* -> loopB -> loopA) the pass terminates: no id is on the current branch
\* twice, at the re-encountered id the walk logs and makes nothing, the
\* children next to it are still materialised (when each of them has a
\* row, so that none cuts the child loop short), and as long as the pass
\* has not ended it has a next step. The re-encountered ids are the logged
\* ones that are on their own path.
C14_CycleSafe ==
    /\ \A i, j \in DOMAIN stack : i # j => stack[i].id # stack[j].id
    /\ \A i \in DOMAIN stack : stack[i].id \in id_set
    /\ \A p \in loops : p \notin out_dirs /\ p \notin out_sidecars
    /\ dl_pc = "done" =>
          \A p \in loops :
              (/\ p[Len(p)] \in Range(SubSeq(p, 1, Len(p) - 1))
               /\ Range(load_children(hierarchy, p[Len(p) - 1]))
                     \subseteq metadata) =>
                  \A c \in due_children(SubSeq(p, 1, Len(p) - 1)) :
                      materialised(SubSeq(p, 1, Len(p) - 1), c)
    /\ dl_pc \notin {"done", "aborted"} => ENABLED DlNext

\* C14 witness: the pass has ended after logging the loop at loopA below
\* loopB and writing the sidecar of leaf, the child of loopB after loopA.
C14_Witness ==
    /\ dl_pc = "done"
    /\ <<"o1", "dir", "loopA", "loopB", "loopA">> \in loops
    /\ <<"o1", "dir", "loopA", "loopB", "leaf">> \in out_sidecars

\* the ids some path, file or queued destination has been made for
ids_with_trace ==
    UNION {Range(SubSeq(p, 2, Len(p))) : p \in out_dirs \cup out_sidecars}
      \cup UNION {Range(SubSeq(f[1], 2, Len(f[1]))) : f \in out_files}
      \cup UNION {Range(SubSeq(scheduled[k][1], 2, Len(scheduled[k][1]))) :
                      k \in DOMAIN scheduled}

\* the ids of the metadata table that no edge names as a child
roots == {id \in metadata : ~is_child(hierarchy, id)}

\* C15 (the claim as stated): an entity with a denylisted owner leaves no
\* trace: no directory, file, sidecar or queued operation is made for it
\* or below it, and no owner folder exists that only excluded roots have.
C15_ExcludedLeavesNoTrace ==
    /\ \A id \in ids_with_trace : ~owner_excluded(id)
    /\ \A p \in out_dirs :
          Len(p) = 1 =>
              \E r \in roots : /\ ~owner_excluded(r)
                               /\ p[1] \in Range(owner_foldernames(r))

\* C16 (the claim as stated, for the download batches): every operation
\* that raised has been recorded by the error tracker.
C16_EveryRaiseRecorded == passes = 1 => err_errors = raised

\* C17 (the claim as stated): when the pass has ended, every child of a
\* materialised folder that has a row, is well-formed and is not excluded
\* has been materialised, whatever happened to its siblings.
C17_SiblingsProceed ==
    dl_pc = "done" =>
        \A p \in out_dirs :
            Len(p) >= 2 => \A c \in due_children(p) : materialised(p, c)

\* how often destination d was queued by the current pass
times_scheduled(d) == Cardinality({k \in DOMAIN scheduled : scheduled[k] = d})

\* the extensions of the files an item is downloaded or exported to
extensions(id) ==
    IF attributes(id).mimeType = "document" THEN Range(WORKSPACE_EXPORT)
    ELSE {""}

C19_NoWorkWhenCapExceedsQuota ==
    max_concurrent > quota =>
        /\ out_dirs = {} /\ out_sidecars = {} /\ out_files = {}
        /\ downloaded = {}
        /\ ~swallowed

later_edges ==
    {k \in DOMAIN hierarchy :
        \E j \in 1..(k - 1) : /\ hierarchy[j][2] = hierarchy[k][2]
                              /\ hierarchy[j][1] # hierarchy[k][1]}

\* id and the ids above it in table hierarchy, n edges up
RECURSIVE up_to(_, _)
up_to(S, n) ==
    IF n = 0 THEN S
    ELSE up_to(S \cup {hierarchy[k][1] : k \in {j \in DOMAIN hierarchy :
                                                   hierarchy[j][2] \in S}},
               n - 1)

with_ancestors(id) == up_to({id}, Len(hierarchy))

\* C34 (the claim as stated): when the pass has ended, every id with a row
\* that is well-formed and has no excluded owner, itself or above it, has
\* been visited: a directory, a sidecar, a file or a queued operation was
\* made for it.
C34_EveryRowVisited ==
    dl_pc = "done" =>
        \A id \in metadata :
            (/\ attributes(id).has_version
             /\ \A a \in with_ancestors(id) : ~owner_excluded(a)) =>
                id \in ids_with_trace

\* the same on the store in which every row is there
C34_VisitedOnCompleteStore ==
    metadata = Range(row_order) => C34_EveryRowVisited

C35_InsertedOnlyAfterSuccess ==
    [][downloaded' \ downloaded # {} =>
          /\ dl_pc \in {"flush", "final"}
          /\ pending' = {}
          /\ downloaded' \ downloaded \subseteq flush_ok'
      ]_vars

\* C35 witness: the first pass has ended; in its last flush an operation
\* raised and its id is not in table downloaded, while the ids of the
\* operations that returned are.
C35_Witness ==
    /\ dl_pc = "done"
    /\ passes = 1
    /\ raised > 0
    /\ flush_ok # {}
    /\ flush_ok \subseteq downloaded
    /\ \E k \in executed :
          scheduled[k][1][Len(scheduled[k][1])] \notin downloaded \cup flush_ok

\* C36 (the claim as stated): while a root is being walked, id_set holds
\* exactly the folders on the path from the root to the item at hand, and
\* what is logged as a loop is an id that is on its own path.
C36_VisitedSetIsBranch ==
    /\ stack # <<>> => id_set = {stack[i].id : i \in DOMAIN stack}
    /\ \A p \in loops : p[Len(p)] \in Range(SubSeq(p, 1, Len(p) - 1))

\* the same on the store in which every row is there
C36_BranchOnCompleteStore ==
    metadata = Range(row_order) => C36_VisitedSetIsBranch

\* C29 (the claim as stated): whenever the walk is about to go on, the
\* queue of scheduled operations is no longer than the threshold
\* max_concurrent * QUEUE_FACTOR: a longer queue has been flushed first.
C29_QueueWithinThreshold ==
    dl_pc = "walk" => ~over_threshold(Len(things_to_download))

\* the same for the runs whose cap does not exceed the quota
C29_WithinThresholdUnderQuota ==
    max_concurrent <= quota => C29_QueueWithinThreshold

\* C30 (the claim as stated): no operation runs twice, an operation that
\* has run was scheduled, and when the pass is over, every operation it
\* scheduled has run and the queue is empty.
C30_ExecutedExactlyOnce ==
    /\ ~run_twice
    /\ executed \subseteq DOMAIN scheduled
    /\ dl_pc \in {"done", "aborted"} =>
          /\ executed = DOMAIN scheduled
          /\ things_to_download = <<>>

\* the same for the runs whose cap does not exceed the quota
C30_ExactlyOnceUnderQuota ==
    max_concurrent <= quota => C30_ExecutedExactlyOnce


(***************************************************************************)
(* src/util.py: sanitize_filename; src/dl.py: Item.filename                *)
(*                                                                         *)
(* A string is a sequence of characters, a character one of                *)
(*   "a"    a one-byte character        "E"   a two-byte character         *)
(*   " "    a space                     "."   a dot                        *)
(*   "/"    a forbidden character       "^"   an ASCII control character   *)
(*   "S"    the three-byte substitute FORBIDDEN_SUB gives for "/"          *)
(*   "_"    an underscore               "0"   a character of an id or of   *)
(*                                            a version number             *)
(***************************************************************************)

\* longest name (without its extension), id, version and extension tried
MaxNameLen == 3
MaxIdLen == 2
MaxVersionLen == 1
MaxExtLen == 1

\* MAX_BYTES = 255, scaled with the lengths above
MAX_BYTES == 16
\* `reserved_space = 5`: the room for ".json"
JSON_LEN == 5
\* WORKSPACE_EXPORT_MIME_EXTENSION_MAX_LEN: len(".docx")
EXPORT_EXT_MAX_LEN == 5

NameChars == {"a", "E", " ", ".", "/", "^"}
ExtChars == {"a", "E"}

\* the sequences over S of length at most n
RECURSIVE SeqsUpTo(_, _)
SeqsUpTo(S, n) ==
    IF n = 0 THEN {<<>>}
    ELSE LET shorter == SeqsUpTo(S, n - 1)
         IN shorter \cup {Append(q, c) : q \in shorter, c \in S}

\* n times the character c
Repeat(c, n) == [k \in 1..n |-> c]

\* len(c.encode()): the bytes of a character in UTF-8
char_bytes(c) == IF c = "E" THEN 2 ELSE IF c = "S" THEN 3 ELSE 1

\* len(s.encode())
RECURSIVE encoded_len(_)
encoded_len(str) ==
    IF str = <<>> THEN 0 ELSE char_bytes(Head(str)) + encoded_len(Tail(str))

\* str.strip()
RECURSIVE lstrip(_)
lstrip(str) ==
    IF str # <<>> /\ Head(str) = " " THEN lstrip(Tail(str)) ELSE str

RECURSIVE rstrip(_)
rstrip(str) ==
    IF str # <<>> /\ str[Len(str)] = " "
    THEN rstrip(SubSeq(str, 1, Len(str) - 1)) ELSE str

strip(str) == rstrip(lstrip(str))

\* LEADING_DASH_DOT.match: underscores, then a dash or a dot
RECURSIVE leading_dash_dot(_)
leading_dash_dot(str) ==
    /\ str # <<>>
    /\ \/ Head(str) = "."
       \/ Head(str) = "_" /\ leading_dash_dot(Tail(str))

\* encoded[:n].decode(errors="ignore") for n >= 0: the characters that lie
\* wholly within the first n bytes
RECURSIVE decode_prefix(_, _)
decode_prefix(str, n) ==
    IF str = <<>> \/ char_bytes(Head(str)) > n THEN <<>>
    ELSE <<Head(str)>> \o decode_prefix(Tail(str), n - char_bytes(Head(str)))

\* encoded[:max_bytes]: a negative max_bytes counts from the end
slice_end(str, max_bytes) ==
    IF max_bytes >= 0 THEN max_bytes
    ELSE Max(0, encoded_len(str) + max_bytes)

\* sanitize_filename(filename, reserved_space): forbidden_sub is always
\* FORBIDDEN_SUB (line 30)
sanitize_filename(filename, reserved_space) ==
    LET no_control == SelectSeq(filename, LAMBDA c : c # "^")
        substituted == [k \in DOMAIN no_control |->
                            IF no_control[k] = "/" THEN "S" ELSE no_control[k]]
        stripped == strip(substituted)
        escaped == IF leading_dash_dot(stripped) THEN <<"_">> \o stripped
                   ELSE stripped
        max_bytes == MAX_BYTES - reserved_space
    IN IF encoded_len(escaped) > max_bytes
       THEN strip(decode_prefix(escaped, slice_end(escaped, max_bytes)))
       ELSE escaped

\* str.endswith
ends_with(str, tail) ==
    /\ Len(tail) <= Len(str)
    /\ SubSeq(str, Len(str) - Len(tail) + 1, Len(str)) = tail

\* the fields of an item that filename() reads: "name" is the base name,
\* followed by a dot and the extension when `dotted`; "fullFileExtension"
\* is the extension, or NoExtension when the field is absent
NoExtension == <<"^">>

name_of(it) == IF it.dotted THEN it.base \o <<".">> \o it.ext ELSE it.base

\* the suffix filename() builds, lines 118-131
suffix_of(it) ==
    LET name == name_of(it)
        id == Repeat("0", it.id_len)
        version == Repeat("0", it.version_len)
        extension == it.ext
    IN IF it.kind = "folder" THEN <<"_">> \o id
       ELSE IF it.kind = "document" THEN <<"_">> \o id \o <<"_">> \o version
       ELSE IF extension # NoExtension /\ extension # <<>>
               /\ ends_with(name, extension)
       THEN <<"_">> \o id \o <<".">> \o extension
       ELSE <<"_">> \o id

\* Item.filename(), lines 110-135; len(suffix) counts characters
filename(it) ==
    LET name == name_of(it)
        extension == it.ext
        hoisted == /\ it.kind = "file"
                   /\ extension # NoExtension /\ extension # <<>>
                   /\ ends_with(name, extension)
        short == IF hoisted
                 THEN SubSeq(name, 1, Len(name) - (1 + Len(extension)))
                 ELSE name
        reserved_space ==
            JSON_LEN
              + (IF it.kind = "document" THEN EXPORT_EXT_MAX_LEN ELSE 0)
              + Len(suffix_of(it))
    IN sanitize_filename(short, reserved_space) \o suffix_of(it)

Items ==
    [kind : {"folder", "document", "file"},
     base : SeqsUpTo(NameChars, MaxNameLen),
     ext : SeqsUpTo(ExtChars, MaxExtLen) \cup {NoExtension},
     dotted : BOOLEAN,
     id_len : 1..MaxIdLen,
     version_len : 1..MaxVersionLen]

\* filename() is about to be called on some item (a dotted name has an
\* extension)
FnInit ==
    /\ SchedIdle
    /\ max_concurrent = 1
    /\ quota = 1
    /\ CrawlIdle
    /\ DlIdle
    /\ item \in {it \in Items : it.dotted => it.ext # NoExtension}
    /\ fn_pc = "call"
    /\ fn_result = <<>>

\* item.filename() returns
filename_call ==
    /\ fn_pc = "call"
    /\ fn_result' = filename(item)
    /\ fn_pc' = "returned"
    /\ UNCHANGED <<schedVars, crawlVars, dlVars, item>>

FnNext == filename_call

SpecFn == FnInit /\ [][FnNext]_vars

\* C20 (the claim as stated): the bytes of what filename() returns, plus
\* the bytes of the longest extension appended to it later (".json"; the
\* export extensions are no longer), are at most MAX_BYTES, and the result
\* ends with the whole suffix.
C20_FilenameWithinBudget ==
    fn_pc = "returned" =>
        /\ encoded_len(fn_result) + Max(JSON_LEN,
                                        IF item.kind = "document"
                                        THEN EXPORT_EXT_MAX_LEN ELSE 0)
               <= MAX_BYTES
        /\ ends_with(fn_result, suffix_of(item))
====
